---- MODULE Spec2Model ----
(***************************************************************************)
(* Verification model of the relay commit validator (per-user lock table,  *)
(* VerifyCommitMessage / HandleSync / VerifyCommitSignature), of the       *)
(* P-256 key type it verifies signatures with, of the automod engine's     *)
(* report dedupe and circuit breakers, and of the lexicon catalog.         *)
(*                                                                         *)
(* The specifications share the module's variables:                        *)
(*   Spec        concurrent HandleCommit / HandleSync calls on a Validator *)
(*   SpecFair    concurrent HandleCommit calls under weak fairness         *)
(*   SpecVerify  one validation call on drawn inputs                       *)
(*   SpecOps     one ParseCommitOps call on a drawn operation list         *)
(*   SpecKey     PrivateKeyP256.HashAndSign / PublicKeyP256.HashAndVerify  *)
(*   SpecReport  one createReportIfFresh / createRecordReportIfFresh call  *)
(*   SpecQuota   concurrent circuit breaker calls on one Engine            *)
(*   SpecCatalog AddSchemaFile / Resolve calls on one BaseCatalog          *)
(***************************************************************************)
EXTENDS Integers, Sequences, FiniteSets, TLC

VARIABLES
    lklk,        \* Validator.lklk: 0 when free, else the call holding it
    userLocks,   \* Validator.userLocks: UID -> userLock object (0: no entry)
    lk,          \* userLock.lk of each object: 0 when free, else the holder
    waiters,     \* userLock.waiters of each object
    pc,          \* position of each call
    ulk,         \* the ulk local of each call's lockUser (0: none)
    call,        \* the arguments of each call: [kind, uid]
    result,      \* the error kind each call returned ("" for nil)
    ctxDone,     \* the context the calls were given has been cancelled
    regQueue,    \* per UID: calls registered in lockUser, not yet holding lk
    released,    \* how many times each call's release function has run
    directory,   \* Validator.directory is configured (non-nil)
    AllowSignatureNotFound,   \* Validator.AllowSignatureNotFound
    vst,         \* SpecVerify, SpecOps: the drawn inputs and the call's outcome
    kst,         \* SpecKey: the last key operation, its inputs and outcome
    Counters,    \* Engine.Counters: the day's count of each automod-quota name
    cb,          \* SpecQuota: each circuit breaker call's position and locals
    rep,         \* SpecReport: the drawn inputs and the call's outcome
    schemas,     \* BaseCatalog.schemas: name -> schema (NoSchema: no entry)
    cat          \* SpecCatalog: the last catalog call and what it returned

engineVars == <<Counters, cb, rep>>

catalogVars == <<schemas, cat>>

vars == <<lklk, userLocks, lk, waiters, pc, ulk, call, result, ctxDone, regQueue,
          released, directory, AllowSignatureNotFound, vst, kst, engineVars,
          catalogVars>>

lockVars == <<lklk, userLocks, lk, waiters, pc, ulk, call, result, ctxDone,
              regQueue, released>>

\* everything of the relay: the validator, its calls and the key
relayVars == <<lockVars, directory, AllowSignatureNotFound, vst, kst>>

\* the engine and the catalog before any call on them
IdleEngine == Counters = <<>> /\ cb = <<>> /\ rep = <<>>

IdleCatalog == schemas = <<>> /\ cat = <<>>

(***************************************************************************)
(* Bounds of the model.                                                    *)
(***************************************************************************)
NumCalls == 3
NumUIDs == 2
MaxPriv == 3
MaxContent == 2

Calls == 1..NumCalls
UIDs == 1..NumUIDs

(***************************************************************************)
(* crypto: the P-256 key type.  The curve is scaled down to the textbook   *)
(* curve y^2 = x^3 + 2x + 2 over F_17, whose group has prime order 19 and  *)
(* generator (5, 1); digests are 5 bits wide and a signature is two        *)
(* 5-bit halves (r, s) instead of two 32-byte halves.                      *)
(***************************************************************************)
CurveP == 17
CurveA == 2
CurveB == 2
CurveN == 19
CurveGx == 5
CurveGy == 1
DigestSpan == 32
SigLen == 2

Infinity == [inf |-> TRUE, x |-> 0, y |-> 0]

Point(px, py) == [inf |-> FALSE, x |-> px, y |-> py]

CurveG == Point(CurveGx, CurveGy)

InvMod(a, m) == CHOOSE i \in 1..(m - 1) : (i * a) % m = 1

IsOnCurve(P) ==
    /\ ~P.inf
    /\ (P.y * P.y) % CurveP = (P.x * P.x * P.x + CurveA * P.x + CurveB) % CurveP

PointAdd(P, Q) ==
    IF P.inf THEN Q
    ELSE IF Q.inf THEN P
    ELSE IF P.x = Q.x /\ (P.y + Q.y) % CurveP = 0 THEN Infinity
    ELSE LET lam == IF P = Q
                    THEN ((3 * P.x * P.x + CurveA)
                            * InvMod((2 * P.y) % CurveP, CurveP)) % CurveP
                    ELSE (((Q.y - P.y) % CurveP)
                            * InvMod((Q.x - P.x) % CurveP, CurveP)) % CurveP
             x3 == (lam * lam - P.x - Q.x) % CurveP
             y3 == (lam * (P.x - x3) - P.y) % CurveP
         IN  Point(x3, y3)

RECURSIVE Multiple(_, _)
\* k * P by repeated addition
Multiple(k, P) ==
    IF k = 0 THEN Infinity ELSE PointAdd(P, Multiple(k - 1, P))

\* k * G for every scalar, computed once
BaseMult == [k \in 0..CurveN |-> Multiple(k, CurveG)]

\* the points of the group
CurvePoints == {BaseMult[k] : k \in 0..(CurveN - 1)}

\* k * P for every scalar and point, computed once
MultTable == [P \in CurvePoints |-> [k \in 0..CurveN |-> Multiple(k, P)]]

\* Curve.ScalarMult
ScalarMult(k, P) == MultTable[P][k]

\* crypto/sha256.Sum256 scaled to a 5-bit digest
Sha256(content) == (11 * content + 5) % DigestSpan

\* crypto/ecdsa.Verify(pub, hash, r, s)
EcdsaVerify(pub, hash, r, s) ==
    IF r < 1 \/ r >= CurveN \/ s < 1 \/ s >= CurveN THEN FALSE
    ELSE LET e  == hash % CurveN
             w  == InvMod(s, CurveN)
             u1 == (e * w) % CurveN
             u2 == (r * w) % CurveN
             X  == PointAdd(BaseMult[u1], ScalarMult(u2, pub))
         IN  IF X.inf THEN FALSE ELSE X.x % CurveN = r

\* crypto/ecdsa.Sign(rand, priv, hash) with the nonce k the reader yields;
\* ok is FALSE where the library would draw another nonce
EcdsaSign(priv, hash, k) ==
    LET e == hash % CurveN
        r == BaseMult[k].x % CurveN
        s == (InvMod(k, CurveN) * (e + r * priv)) % CurveN
    IN  [ok |-> r # 0 /\ s # 0, r |-> r, s |-> s]

\* sigSIsLowS_P256: s is at most half the curve order
sigSIsLowS_P256(s) == s <= CurveN \div 2

\* sigSToLowS_P256: the low-S twin of s
sigSToLowS_P256(s) == IF sigSIsLowS_P256(s) THEN s ELSE CurveN - s

\* PrivateKeyP256.Public
Public(priv) == BaseMult[priv]

\* PrivateKeyP256.HashAndSign
HashAndSign(priv, content, k) ==
    LET hash == Sha256(content)
        raw  == EcdsaSign(priv, hash, k)
    IN  <<raw.r, sigSToLowS_P256(raw.s)>>

\* a mutant of HashAndVerify: the low-S requirement is dropped
HashAndVerifyNoLowS(pub, content, sig) ==
    LET hash == Sha256(content)
    IN  IF Len(sig) # SigLen THEN "BadSigLength"
        ELSE IF ~EcdsaVerify(pub, hash, sig[1], sig[2]) THEN "ErrInvalidSignature"
        ELSE ""

\* PublicKeyP256.HashAndVerify: "" is the nil error
HashAndVerify(pub, content, sig) ==
    LET hash == Sha256(content)
    IN  IF Len(sig) # SigLen THEN "BadSigLength"
        ELSE LET r == sig[1]
                 s == sig[2]
             IN  IF ~EcdsaVerify(pub, hash, r, s) THEN "ErrInvalidSignature"
                 ELSE IF ~sigSIsLowS_P256(s) THEN "ErrInvalidSignature"
                 ELSE ""

PrivKeys == 1..MaxPriv
Contents == 0..MaxContent
SigHalves == 0..(DigestSpan - 1)
Sigs == {<<r, s>> : r \in SigHalves, s \in SigHalves}
            \cup {<<1>>, <<1, 2, 3>>}

KeyIdle == [op |-> "none", priv |-> 0, pub |-> Infinity, content |-> 0,
            sig |-> <<>>, nonce |-> 0, err |-> ""]

\* the inputs of one HashAndVerify call: a key, a content and any signature
\* bytes
KeyVerifyInputs ==
    {[KeyIdle EXCEPT !.op = "toVerify", !.priv = priv, !.pub = Public(priv),
                     !.content = content, !.sig = sig] :
        priv \in PrivKeys, content \in Contents, sig \in Sigs}

\* the inputs of one HashAndSign call: a key, a content and the nonce
\* rand.Reader yields
KeySignInputs ==
    {[KeyIdle EXCEPT !.op = "toSign", !.priv = priv, !.pub = Public(priv),
                     !.content = content, !.nonce = k] :
        priv \in PrivKeys, content \in Contents, k \in 1..(CurveN - 1)}

\* PrivateKeyP256.HashAndSign is called
KeyHashAndSign ==
    /\ kst.op = "toSign"
    /\ EcdsaSign(kst.priv, Sha256(kst.content), kst.nonce).ok
    /\ kst' = [kst EXCEPT !.op = "sign",
                          !.sig = HashAndSign(kst.priv, kst.content, kst.nonce)]
    /\ UNCHANGED <<lockVars, directory, AllowSignatureNotFound, vst,
                 engineVars, catalogVars>>

\* PublicKeyP256.HashAndVerify is called
KeyHashAndVerify ==
    /\ kst.op = "toVerify"
    /\ kst' = [kst EXCEPT !.op = "verify",
                          !.err = HashAndVerify(kst.pub, kst.content, kst.sig)]
    /\ UNCHANGED <<lockVars, directory, AllowSignatureNotFound, vst,
                 engineVars, catalogVars>>

\* HashAndVerify is called on the signature HashAndSign just returned
KeyVerifySigned ==
    /\ kst.op = "sign"
    /\ kst' = [kst EXCEPT !.op = "verifySigned",
                          !.err = HashAndVerify(kst.pub, kst.content, kst.sig)]
    /\ UNCHANGED <<lockVars, directory, AllowSignatureNotFound, vst,
                 engineVars, catalogVars>>

(***************************************************************************)
(* relay: the values a #commit / #sync message is made of.                 *)
(*   DID and datetime strings are the strings themselves; a TID string is  *)
(*   the integer it encodes (time in the high bits, clock id in the low    *)
(*   ones), BadTID being a string that is no TID; a CID is a positive      *)
(*   number, NoCid the nil pointer; an MST is the map from record path to  *)
(*   record CID (NoCid: no such key).                                      *)
(***************************************************************************)
MaxCid == 2
MaxTime == 3
ClockIdSpan == 2
defaultMaxRevFuture == 1

NoCid == 0
NoTID == -1
BadTID == -2

ValidDIDs == {"did:plc:alice", "did:plc:bob"}
DIDStrings == ValidDIDs \cup {"alice.example"}
Datetimes == {"2024-01-01T00:00:00Z", "yesterday"}
PathList == <<"app.post/a", "app.post/b", "nopath">>
ValidPaths == {"app.post/a", "app.post/b"}
Cids == 1..MaxCid
TIDs == 0..((MaxTime + 1) * ClockIdSpan - 1)
Actions == {"create", "update", "delete", "upsert"}

\* syntax.ParseDID: err # nil for a string that is no DID
ParseDIDOk(s) == s \in ValidDIDs

\* syntax.ParseTID
ParseTIDOk(s) == s \in TIDs

\* syntax.TID.Time
TIDTime(tid) == tid \div ClockIdSpan

\* syntax.ParseDatetime
ParseDatetimeOk(s) == s = "2024-01-01T00:00:00Z"

\* syntax.ParseRepoPath
ParseRepoPathOk(path) == path \in ValidPaths

EmptyMST == [path \in ValidPaths |-> NoCid]

\* mst.Tree.RootCID: one CID per key/value set
RootCID(tree) ==
    1 + tree[PathList[1]] + (MaxCid + 1) * tree[PathList[2]]

\* repo.Commit.UnsignedBytes: the commit block without its sig field
UnsignedBytes(commit) ==
    ((IF commit.DID = "did:plc:alice" THEN 0 ELSE 1)
        + commit.Rev + commit.Data) % (MaxContent + 1)

\* repo.Commit.VerifySignature
VerifySignature(commit, pub) ==
    HashAndVerify(pub, UnsignedBytes(commit), commit.Sig)

\* the error kind behind each reason code of the error counter
ErrKind(metric) ==
    CASE metric = "" -> ""
      [] metric = "did" -> "BadDID"
      [] metric = "tid" -> "BadRev"
      [] metric = "revb" -> "RevOutOfOrder"
      [] metric = "revf" -> "RevTooFarFuture"
      [] metric = "time" -> "BadTime"
      [] metric = "car" -> "BadCAR"
      [] metric = "rev" -> "CommitMismatch"
      [] metric = "did2" -> "CommitMismatch"
      [] metric = "sig1" -> "BadDID"
      [] metric = "sig2" -> "DIDResolutionFailed"
      [] metric = "sig3" -> "NoSigningKey"
      [] metric = "sig4" -> "BadSignature"
      [] metric = "opp" -> "BadPath"
      [] metric = "rcid" -> "RecordNotFound"
      [] metric = "opc" -> "OpCIDMismatch"
      [] metric = "rec" -> "MissingRecord"
      [] metric = "pop" -> "InvalidOp"
      [] metric = "nop" -> "InconsistentOps"
      [] metric = "inv" -> "InconsistentOps"
      [] metric = "pd" -> "PrevDataMismatch"
      [] OTHER -> "Unknown"

(***************************************************************************)
(* Validator.VerifyCommitSignature.  lookup is what directory.LookupDID    *)
(* answers for the commit's DID: [outcome, hasKey, pub].  The result is    *)
(* the reason code of the error ("" for nil), the value left in hasWarning,*)
(* the number of directory lookups made and whether a signature was        *)
(* verified.                                                               *)
(***************************************************************************)
SigResult(metric, warn, lookups, verified) ==
    [metric |-> metric, warn |-> warn, lookups |-> lookups,
     verified |-> verified]

\* a mutant: a failed lookup is let through whatever the flag says
VerifyCommitSignatureAlwaysAllow(commit, lookup, hasWarning) ==
    IF ~directory THEN SigResult("", hasWarning, 0, FALSE)
    ELSE IF ~ParseDIDOk(commit.DID) THEN SigResult("sig1", hasWarning, 0, FALSE)
    ELSE IF lookup.outcome # "ok" THEN SigResult("", TRUE, 1, FALSE)
    ELSE IF ~lookup.hasKey THEN SigResult("sig3", hasWarning, 1, FALSE)
    ELSE IF VerifySignature(commit, lookup.pub) # ""
         THEN SigResult("sig4", hasWarning, 1, TRUE)
    ELSE SigResult("", hasWarning, 1, TRUE)

\* a mutant: the signature is not checked against the key
VerifyCommitSignatureNoVerify(commit, lookup, hasWarning) ==
    IF ~directory THEN SigResult("", hasWarning, 0, FALSE)
    ELSE IF ~ParseDIDOk(commit.DID) THEN SigResult("sig1", hasWarning, 0, FALSE)
    ELSE IF lookup.outcome # "ok"
         THEN IF AllowSignatureNotFound
              THEN SigResult("", TRUE, 1, FALSE)
              ELSE SigResult("sig2", hasWarning, 1, FALSE)
    ELSE IF ~lookup.hasKey THEN SigResult("sig3", hasWarning, 1, FALSE)
    ELSE SigResult("", hasWarning, 1, FALSE)

VerifyCommitSignature(commit, lookup, hasWarning) ==
    IF ~directory THEN SigResult("", hasWarning, 0, FALSE)
    ELSE IF ~ParseDIDOk(commit.DID) THEN SigResult("sig1", hasWarning, 0, FALSE)
    ELSE IF lookup.outcome # "ok"
         THEN IF AllowSignatureNotFound
              THEN SigResult("", TRUE, 1, FALSE)
              ELSE SigResult("sig2", hasWarning, 1, FALSE)
    ELSE IF ~lookup.hasKey THEN SigResult("sig3", hasWarning, 1, FALSE)
    ELSE IF VerifySignature(commit, lookup.pub) # ""
         THEN SigResult("sig4", hasWarning, 1, TRUE)
    ELSE SigResult("", hasWarning, 1, TRUE)

(***************************************************************************)
(* Repo operations.  A wire op is [Action, Path, Cid, Prev]; a             *)
(* repo.Operation is [Path, Prev, Value].                                  *)
(***************************************************************************)
Operation(path, prev, value) == [Path |-> path, Prev |-> prev, Value |-> value]

\* a create that carries a prev CID is let through
RepoOpValidCreateAnyPrev(rop) ==
    CASE rop.Action = "create" -> rop.Cid # NoCid
      [] rop.Action = "delete" -> ~(rop.Cid # NoCid \/ rop.Prev = NoCid)
      [] rop.Action = "update" -> ~(rop.Cid = NoCid \/ rop.Prev = NoCid)
      [] OTHER -> FALSE

\* one step of ParseCommitOps' loop: the op's shape is valid for its action
RepoOpValid(rop) ==
    CASE rop.Action = "create" -> ~(rop.Cid = NoCid \/ rop.Prev # NoCid)
      [] rop.Action = "delete" -> ~(rop.Cid # NoCid \/ rop.Prev = NoCid)
      [] rop.Action = "update" -> ~(rop.Cid = NoCid \/ rop.Prev = NoCid)
      [] OTHER -> FALSE

\* ParseCommitOps: [ok, ops]
ParseCommitOps(ops) ==
    IF \A i \in 1..Len(ops) : RepoOpValid(ops[i])
    THEN [ok |-> TRUE,
          ops |-> [i \in 1..Len(ops) |->
                      Operation(ops[i].Path, ops[i].Prev, ops[i].Cid)]]
    ELSE [ok |-> FALSE, ops |-> <<>>]

IsCreate(op) == op.Value # NoCid /\ op.Prev = NoCid
IsUpdate(op) == op.Value # NoCid /\ op.Prev # NoCid
IsDelete(op) == op.Value = NoCid /\ op.Prev # NoCid

\* two ops on one path composed into one; ok is FALSE where they do not
\* compose, noop where they cancel out
ComposeOps(a, b) ==
    LET bad == [ok |-> FALSE, noop |-> FALSE, op |-> a]
    IN  IF IsCreate(a) /\ IsUpdate(b) /\ b.Prev = a.Value
        THEN [ok |-> TRUE, noop |-> FALSE,
              op |-> Operation(a.Path, NoCid, b.Value)]
        ELSE IF IsCreate(a) /\ IsDelete(b) /\ b.Prev = a.Value
        THEN [ok |-> TRUE, noop |-> TRUE, op |-> a]
        ELSE IF IsUpdate(a) /\ IsUpdate(b) /\ b.Prev = a.Value
        THEN [ok |-> TRUE, noop |-> b.Value = a.Prev,
              op |-> Operation(a.Path, a.Prev, b.Value)]
        ELSE IF IsUpdate(a) /\ IsDelete(b) /\ b.Prev = a.Value
        THEN [ok |-> TRUE, noop |-> FALSE,
              op |-> Operation(a.Path, a.Prev, NoCid)]
        ELSE IF IsDelete(a) /\ IsCreate(b)
        THEN [ok |-> TRUE, noop |-> b.Value = a.Prev,
              op |-> Operation(a.Path, a.Prev, b.Value)]
        ELSE bad

\* the ops of list on path, in list order
OpsOnPath(list, path) == SelectSeq(list, LAMBDA op : op.Path = path)

RECURSIVE ComposeAll(_)
\* the ops of one path folded left to right
ComposeAll(list) ==
    IF Len(list) = 1 THEN [ok |-> TRUE, noop |-> FALSE, op |-> list[1]]
    ELSE LET head == ComposeAll(SubSeq(list, 1, Len(list) - 1))
         IN  IF ~head.ok \/ head.noop THEN [head EXCEPT !.ok = FALSE]
             ELSE ComposeOps(head.op, list[Len(list)])

RECURSIVE NormalizeFrom(_, _)
\* the normalized ops of the paths PathList[i..]
NormalizeFrom(list, i) ==
    IF i > Len(PathList) THEN [ok |-> TRUE, ops |-> <<>>]
    ELSE LET here == OpsOnPath(list, PathList[i])
             rest == NormalizeFrom(list, i + 1)
         IN  IF ~rest.ok THEN rest
             ELSE IF Len(here) = 0 THEN rest
             ELSE LET one == ComposeAll(here)
                  IN  IF ~one.ok \/ one.noop THEN [ok |-> FALSE, ops |-> <<>>]
                      ELSE [ok |-> TRUE, ops |-> <<one.op>> \o rest.ops]

\* a mutant: the ops are handed on as they came, ops on one path unmerged
NormalizeOpsNoMerge(list) == [ok |-> TRUE, ops |-> list]

\* repo.NormalizeOps: sorted by path, one op per path; [ok, ops]
NormalizeOps(list) == NormalizeFrom(list, 1)

\* repo.InvertOp on a tree: [ok, tree]
InvertOp(tree, op) ==
    IF op.Path \notin ValidPaths THEN [ok |-> FALSE, tree |-> tree]
    ELSE IF IsCreate(op)
    THEN [ok |-> tree[op.Path] # NoCid /\ tree[op.Path] = op.Value,
          tree |-> [tree EXCEPT ![op.Path] = NoCid]]
    ELSE IF IsUpdate(op)
    THEN [ok |-> tree[op.Path] # NoCid /\ tree[op.Path] = op.Value,
          tree |-> [tree EXCEPT ![op.Path] = op.Prev]]
    ELSE IF IsDelete(op)
    THEN [ok |-> tree[op.Path] = NoCid,
          tree |-> [tree EXCEPT ![op.Path] = op.Prev]]
    ELSE [ok |-> FALSE, tree |-> tree]

RECURSIVE InvertAllReverse(_, _, _)
\* a mutant: the loop runs from the last normalized op down to the first
InvertAllReverse(tree, ops, i) ==
    IF i > Len(ops) THEN [ok |-> TRUE, tree |-> tree, order |-> <<>>]
    ELSE LET op  == ops[Len(ops) + 1 - i]
             one == InvertOp(tree, op)
         IN  IF ~one.ok
             THEN [ok |-> FALSE, tree |-> tree, order |-> <<op.Path>>]
             ELSE LET rest == InvertAllReverse(one.tree, ops, i + 1)
                  IN  [rest EXCEPT !.order = <<op.Path>> \o @]

RECURSIVE InvertAll(_, _, _)
\* the loop over the normalized ops, from index i on: [ok, tree, order],
\* order being the paths of the ops InvertOp was called on, in call order
InvertAll(tree, ops, i) ==
    IF i > Len(ops) THEN [ok |-> TRUE, tree |-> tree, order |-> <<>>]
    ELSE LET one == InvertOp(tree, ops[i])
         IN  IF ~one.ok
             THEN [ok |-> FALSE, tree |-> tree, order |-> <<ops[i].Path>>]
             ELSE LET rest == InvertAll(one.tree, ops, i + 1)
                  IN  [rest EXCEPT !.order = <<ops[i].Path>> \o @]

(***************************************************************************)
(* Validator.VerifyCommitMessage.  msg is the #commit message              *)
(* [Repo, Rev, Time, TooBig, Rebase, Blocks, Ops, PrevData]; Blocks is the *)
(* CAR [ok, DID, Rev, Sig, mst, records]: whether it decodes, the fields   *)
(* of its commit block, the MST under the commit's data CID and the CIDs   *)
(* of the record blocks it carries.  The result names the counter the call *)
(* incremented: metric is the reason code of the error counter ("" when    *)
(* the call succeeded), okish the label of the okish counter ("ok" for the *)
(* ok counter), inverted the paths repo.InvertOp was called on, in order.  *)
(***************************************************************************)
VerifyResult(metric, okish, warn, root, lookups, verified, dt) ==
    [metric |-> metric, okish |-> okish, warn |-> warn, root |-> root,
     lookups |-> lookups, verified |-> verified, dt |-> dt,
     inverted |-> <<>>]

VerifyError(metric, lookups, dt) ==
    VerifyResult(metric, "", FALSE, NoCid, lookups, FALSE, dt)

\* atrepo.LoadRepoFromCAR / LoadCommitFromCAR: the decoded commit block
CommitOf(car) ==
    [DID |-> car.DID, Rev |-> car.Rev, Data |-> RootCID(car.mst),
     Sig |-> car.Sig]

\* a mutant: the op's CID is not compared with the MST's value for the path
OpRecordCheckNoCompare(op, car) ==
    IF (op.Action = "create" \/ op.Action = "update") /\ op.Cid # NoCid
    THEN IF ~ParseRepoPathOk(op.Path) THEN "opp"
         ELSE IF car.mst[op.Path] = NoCid THEN "rcid"
         ELSE IF car.mst[op.Path] \notin car.records THEN "rec"
         ELSE ""
    ELSE ""

\* the body of the record loop for one op: the reason code it fails with
OpRecordCheck(op, car) ==
    IF (op.Action = "create" \/ op.Action = "update") /\ op.Cid # NoCid
    THEN IF ~ParseRepoPathOk(op.Path) THEN "opp"
         ELSE IF car.mst[op.Path] = NoCid THEN "rcid"
         ELSE IF op.Cid # car.mst[op.Path] THEN "opc"
         ELSE IF car.mst[op.Path] \notin car.records THEN "rec"
         ELSE ""
    ELSE ""

RECURSIVE OpsRecordCheck(_, _, _)
\* the record loop from op i on: the first failure
OpsRecordCheck(ops, car, i) ==
    IF i > Len(ops) THEN ""
    ELSE LET one == OpRecordCheck(ops[i], car)
         IN  IF one # "" THEN one ELSE OpsRecordCheck(ops, car, i + 1)

RECURSIVE LegacyOpDeleteOnly(_, _)
\* a mutant: only a delete without prev counts as a legacy op
LegacyOpDeleteOnly(ops, i) ==
    IF i > Len(ops) THEN ""
    ELSE IF ops[i].Action = "delete" /\ ops[i].Prev = NoCid THEN "del"
    ELSE LegacyOpDeleteOnly(ops, i + 1)

RECURSIVE LegacyOp(_, _)
\* the legacy loop from op i on: the okish label of the first delete or
\* update without prev
LegacyOp(ops, i) ==
    IF i > Len(ops) THEN ""
    ELSE IF ops[i].Action = "delete" /\ ops[i].Prev = NoCid THEN "del"
    ELSE IF ops[i].Action = "update" /\ ops[i].Prev = NoCid THEN "up"
    ELSE LegacyOp(ops, i + 1)

\* a mutant: the inverted tree's root is not compared with msg.PrevData
VerifyPrevDataNoRootCheck(msg, car, prevData, hasWarning, sig) ==
    LET warn   == hasWarning \/ (prevData # NoCid /\ msg.PrevData # prevData)
        parsed == ParseCommitOps(msg.Ops)
        normal == NormalizeOps(parsed.ops)
        inv    == InvertAll(car.mst, normal.ops, 1)
        root   == RootCID(car.mst)
    IN  IF ~parsed.ok THEN VerifyError("pop", sig.lookups, 0)
        ELSE IF ~normal.ok THEN VerifyError("nop", sig.lookups, 0)
        ELSE IF ~inv.ok
        THEN [VerifyError("inv", sig.lookups, 0) EXCEPT !.inverted = inv.order]
        ELSE [VerifyResult("",
                  IF prevData = NoCid THEN "new"
                  ELSE IF warn THEN "warn" ELSE "ok",
                  warn, root, sig.lookups, sig.verified, 0)
                EXCEPT !.inverted = inv.order]

\* a mutant: a msg.PrevData other than the accumulated prevData is an error
VerifyPrevDataStrictState(msg, car, prevData, hasWarning, sig) ==
    LET warn   == hasWarning \/ (prevData # NoCid /\ msg.PrevData # prevData)
        parsed == ParseCommitOps(msg.Ops)
        normal == NormalizeOps(parsed.ops)
        inv    == InvertAll(car.mst, normal.ops, 1)
        root   == RootCID(car.mst)
    IN  IF ~parsed.ok THEN VerifyError("pop", sig.lookups, 0)
        ELSE IF ~normal.ok THEN VerifyError("nop", sig.lookups, 0)
        ELSE IF ~inv.ok
        THEN [VerifyError("inv", sig.lookups, 0) EXCEPT !.inverted = inv.order]
        ELSE IF RootCID(inv.tree) # msg.PrevData
                \/ (prevData # NoCid /\ msg.PrevData # prevData)
        THEN [VerifyError("pd", sig.lookups, 0) EXCEPT !.inverted = inv.order]
        ELSE [VerifyResult("",
                  IF prevData = NoCid THEN "new"
                  ELSE IF warn THEN "warn" ELSE "ok",
                  warn, root, sig.lookups, sig.verified, 0)
                EXCEPT !.inverted = inv.order]

\* a mutant: the ops are inverted on the commit's MST itself, not on a copy
VerifyPrevDataNoCopy(msg, car, prevData, hasWarning, sig) ==
    LET warn   == hasWarning \/ (prevData # NoCid /\ msg.PrevData # prevData)
        parsed == ParseCommitOps(msg.Ops)
        normal == NormalizeOps(parsed.ops)
        inv    == InvertAll(car.mst, normal.ops, 1)
        root   == RootCID(car.mst)
    IN  IF ~parsed.ok THEN VerifyError("pop", sig.lookups, 0)
        ELSE IF ~normal.ok THEN VerifyError("nop", sig.lookups, 0)
        ELSE IF ~inv.ok
        THEN [VerifyError("inv", sig.lookups, 0) EXCEPT !.inverted = inv.order]
        ELSE IF RootCID(inv.tree) # msg.PrevData
        THEN [VerifyError("pd", sig.lookups, 0) EXCEPT !.inverted = inv.order]
        ELSE [VerifyResult("",
                  IF prevData = NoCid THEN "new"
                  ELSE IF warn THEN "warn" ELSE "ok",
                  warn, RootCID(inv.tree), sig.lookups, sig.verified, 0)
                EXCEPT !.inverted = inv.order]

\* a mutant: a warning raised before the prevData branch does not keep the
\* event off the ok counter
VerifyPrevDataForgetsWarning(msg, car, prevData, hasWarning, sig) ==
    LET warn   == prevData # NoCid /\ msg.PrevData # prevData
        parsed == ParseCommitOps(msg.Ops)
        normal == NormalizeOps(parsed.ops)
        inv    == InvertAll(car.mst, normal.ops, 1)
        root   == RootCID(car.mst)
    IN  IF ~parsed.ok THEN VerifyError("pop", sig.lookups, 0)
        ELSE IF ~normal.ok THEN VerifyError("nop", sig.lookups, 0)
        ELSE IF ~inv.ok
        THEN [VerifyError("inv", sig.lookups, 0) EXCEPT !.inverted = inv.order]
        ELSE IF RootCID(inv.tree) # msg.PrevData
        THEN [VerifyError("pd", sig.lookups, 0) EXCEPT !.inverted = inv.order]
        ELSE [VerifyResult("",
                  IF prevData = NoCid THEN "new"
                  ELSE IF warn THEN "warn" ELSE "ok",
                  hasWarning \/ warn, root, sig.lookups, sig.verified, 0)
                EXCEPT !.inverted = inv.order]

\* the msg.PrevData # nil branch
VerifyPrevData(msg, car, prevData, hasWarning, sig) ==
    LET warn   == hasWarning \/ (prevData # NoCid /\ msg.PrevData # prevData)
        parsed == ParseCommitOps(msg.Ops)
        normal == NormalizeOps(parsed.ops)
        inv    == InvertAll(car.mst, normal.ops, 1)
        root   == RootCID(car.mst)
    IN  IF ~parsed.ok THEN VerifyError("pop", sig.lookups, 0)
        ELSE IF ~normal.ok THEN VerifyError("nop", sig.lookups, 0)
        ELSE IF ~inv.ok
        THEN [VerifyError("inv", sig.lookups, 0) EXCEPT !.inverted = inv.order]
        ELSE IF RootCID(inv.tree) # msg.PrevData
        THEN [VerifyError("pd", sig.lookups, 0) EXCEPT !.inverted = inv.order]
        ELSE [VerifyResult("",
                  IF prevData = NoCid THEN "new"
                  ELSE IF warn THEN "warn" ELSE "ok",
                  warn, root, sig.lookups, sig.verified, 0)
                EXCEPT !.inverted = inv.order]

\* a mutant: the signature is verified before the commit's rev and DID are
\* compared with the message's
VerifyDecodedSignatureFirst(msg, car, prevData, hasWarning, lookup) ==
    LET commit == CommitOf(car)
        sig    == VerifyCommitSignature(commit, lookup, hasWarning)
        rec    == OpsRecordCheck(msg.Ops, car, 1)
        legacy == LegacyOp(msg.Ops, 1)
        root   == RootCID(car.mst)
    IN  IF sig.metric # "" THEN VerifyError(sig.metric, sig.lookups, 0)
        ELSE IF commit.Rev # msg.Rev THEN VerifyError("rev", sig.lookups, 0)
        ELSE IF commit.DID # msg.Repo THEN VerifyError("did2", sig.lookups, 0)
        ELSE IF rec # "" THEN VerifyError(rec, sig.lookups, 0)
        ELSE IF legacy # ""
        THEN VerifyResult("", legacy, sig.warn, root, sig.lookups,
                          sig.verified, 0)
        ELSE IF msg.PrevData # NoCid
        THEN VerifyPrevData(msg, car, prevData, sig.warn, sig)
        ELSE VerifyResult("", "old", sig.warn, root, sig.lookups,
                          sig.verified, 0)

\* a mutant: the shape of the ops is checked whether or not the message
\* carries prevData
VerifyDecodedAlwaysParses(msg, car, prevData, hasWarning, lookup) ==
    LET commit == CommitOf(car)
        sig    == VerifyCommitSignature(commit, lookup, hasWarning)
        rec    == OpsRecordCheck(msg.Ops, car, 1)
        legacy == LegacyOp(msg.Ops, 1)
        root   == RootCID(car.mst)
    IN  IF commit.Rev # msg.Rev THEN VerifyError("rev", 0, 0)
        ELSE IF commit.DID # msg.Repo THEN VerifyError("did2", 0, 0)
        ELSE IF sig.metric # "" THEN VerifyError(sig.metric, sig.lookups, 0)
        ELSE IF rec # "" THEN VerifyError(rec, sig.lookups, 0)
        ELSE IF legacy # ""
        THEN VerifyResult("", legacy, sig.warn, root, sig.lookups,
                          sig.verified, 0)
        ELSE IF ~ParseCommitOps(msg.Ops).ok
        THEN VerifyError("pop", sig.lookups, 0)
        ELSE IF msg.PrevData # NoCid
        THEN VerifyPrevData(msg, car, prevData, sig.warn, sig)
        ELSE VerifyResult("", "old", sig.warn, root, sig.lookups,
                          sig.verified, 0)

\* everything after the CAR has been decoded
VerifyDecoded(msg, car, prevData, hasWarning, lookup) ==
    LET commit == CommitOf(car)
        sig    == VerifyCommitSignature(commit, lookup, hasWarning)
        rec    == OpsRecordCheck(msg.Ops, car, 1)
        legacy == LegacyOp(msg.Ops, 1)
        root   == RootCID(car.mst)
    IN  IF commit.Rev # msg.Rev THEN VerifyError("rev", 0, 0)
        ELSE IF commit.DID # msg.Repo THEN VerifyError("did2", 0, 0)
        ELSE IF sig.metric # "" THEN VerifyError(sig.metric, sig.lookups, 0)
        ELSE IF rec # "" THEN VerifyError(rec, sig.lookups, 0)
        ELSE IF legacy # ""
        THEN VerifyResult("", legacy, sig.warn, root, sig.lookups,
                          sig.verified, 0)
        ELSE IF msg.PrevData # NoCid
        THEN VerifyPrevData(msg, car, prevData, sig.warn, sig)
        ELSE VerifyResult("", "old", sig.warn, root, sig.lookups,
                          sig.verified, 0)

\* a mutant: a rev whose time equals prevRev's is out of order too
VerifyCommitMessageRevNotAfter(msg, prevRev, prevData, now, lookup) ==
    IF ~ParseDIDOk(msg.Repo) THEN VerifyError("did", 0, 0)
    ELSE IF ~ParseTIDOk(msg.Rev) THEN VerifyError("tid", 0, 0)
    ELSE IF prevRev # NoTID /\ TIDTime(msg.Rev) <= TIDTime(prevRev)
    THEN VerifyError("revb", 0, TIDTime(prevRev) - TIDTime(msg.Rev))
    ELSE IF TIDTime(msg.Rev) > now + defaultMaxRevFuture
    THEN VerifyError("revf", 0, 0)
    ELSE IF ~ParseDatetimeOk(msg.Time) THEN VerifyError("time", 0, 0)
    ELSE IF ~msg.Blocks.ok THEN VerifyError("car", 0, 0)
    ELSE VerifyDecoded(msg, msg.Blocks, prevData,
                       msg.TooBig \/ msg.Rebase, lookup)

\* a mutant: a rev exactly maxRevFuture ahead of the clock is too far
VerifyCommitMessageFutureInclusive(msg, prevRev, prevData, now, lookup) ==
    IF ~ParseDIDOk(msg.Repo) THEN VerifyError("did", 0, 0)
    ELSE IF ~ParseTIDOk(msg.Rev) THEN VerifyError("tid", 0, 0)
    ELSE IF prevRev # NoTID /\ TIDTime(msg.Rev) < TIDTime(prevRev)
    THEN VerifyError("revb", 0, TIDTime(prevRev) - TIDTime(msg.Rev))
    ELSE IF TIDTime(msg.Rev) >= now + defaultMaxRevFuture
    THEN VerifyError("revf", 0, 0)
    ELSE IF ~ParseDatetimeOk(msg.Time) THEN VerifyError("time", 0, 0)
    ELSE IF ~msg.Blocks.ok THEN VerifyError("car", 0, 0)
    ELSE VerifyDecoded(msg, msg.Blocks, prevData,
                       msg.TooBig \/ msg.Rebase, lookup)

VerifyCommitMessage(msg, prevRev, prevData, now, lookup) ==
    IF ~ParseDIDOk(msg.Repo) THEN VerifyError("did", 0, 0)
    ELSE IF ~ParseTIDOk(msg.Rev) THEN VerifyError("tid", 0, 0)
    ELSE IF prevRev # NoTID /\ TIDTime(msg.Rev) < TIDTime(prevRev)
    THEN VerifyError("revb", 0, TIDTime(prevRev) - TIDTime(msg.Rev))
    ELSE IF TIDTime(msg.Rev) > now + defaultMaxRevFuture
    THEN VerifyError("revf", 0, 0)
    ELSE IF ~ParseDatetimeOk(msg.Time) THEN VerifyError("time", 0, 0)
    ELSE IF ~msg.Blocks.ok THEN VerifyError("car", 0, 0)
    ELSE VerifyDecoded(msg, msg.Blocks, prevData,
                       msg.TooBig \/ msg.Rebase, lookup)

\* what HandleCommit returns once it holds the user lock: the error kind
\* ("" for nil) and newRoot
HandleCommitResult(msg, prevRev, prevData, now, lookup) ==
    LET v == VerifyCommitMessage(msg, prevRev, prevData, now, lookup)
    IN  [err |-> ErrKind(v.metric), newRoot |-> v.root, verify |-> v]

\* a mutant: the commit's DID is not compared with the message's
HandleSyncNoDidCheck(msg, now, lookup) ==
    LET car    == msg.Blocks
        commit == CommitOf(car)
        sig    == VerifyCommitSignature(commit, lookup, FALSE)
        v      ==
            IF ~ParseDIDOk(msg.Did) THEN VerifyError("did", 0, 0)
            ELSE IF ~ParseTIDOk(msg.Rev) THEN VerifyError("tid", 0, 0)
            ELSE IF TIDTime(msg.Rev) > now + defaultMaxRevFuture
            THEN VerifyError("revf", 0, 0)
            ELSE IF ~ParseDatetimeOk(msg.Time) THEN VerifyError("time", 0, 0)
            ELSE IF ~car.ok THEN VerifyError("car", 0, 0)
            ELSE IF commit.Rev # msg.Rev THEN VerifyError("rev", 0, 0)
            ELSE IF sig.metric # ""
            THEN VerifyError(sig.metric, sig.lookups, 0)
            ELSE VerifyResult("", "", sig.warn, commit.Data, sig.lookups,
                              sig.verified, 0)
    IN  [err |-> ErrKind(v.metric), newRoot |-> v.root, verify |-> v]

\* Validator.HandleSync on the #sync message [Did, Rev, Time, Blocks]
HandleSync(msg, now, lookup) ==
    LET car    == msg.Blocks
        commit == CommitOf(car)
        sig    == VerifyCommitSignature(commit, lookup, FALSE)
        v      ==
            IF ~ParseDIDOk(msg.Did) THEN VerifyError("did", 0, 0)
            ELSE IF ~ParseTIDOk(msg.Rev) THEN VerifyError("tid", 0, 0)
            ELSE IF TIDTime(msg.Rev) > now + defaultMaxRevFuture
            THEN VerifyError("revf", 0, 0)
            ELSE IF ~ParseDatetimeOk(msg.Time) THEN VerifyError("time", 0, 0)
            ELSE IF ~car.ok THEN VerifyError("car", 0, 0)
            ELSE IF commit.Rev # msg.Rev THEN VerifyError("rev", 0, 0)
            ELSE IF commit.DID # msg.Did THEN VerifyError("did2", 0, 0)
            ELSE IF sig.metric # ""
            THEN VerifyError(sig.metric, sig.lookups, 0)
            ELSE VerifyResult("", "", sig.warn, commit.Data, sig.lookups,
                              sig.verified, 0)
    IN  [err |-> ErrKind(v.metric), newRoot |-> v.root, verify |-> v]

(***************************************************************************)
(* Inputs of the validation calls.                                         *)
(***************************************************************************)
NowTick == 2

\* a nonce rand.Reader can yield for which ecdsa.Sign returns
SignNonce(priv, content) ==
    CHOOSE k \in 1..(CurveN - 1) : EcdsaSign(priv, Sha256(content), k).ok

\* the CAR of a commit signed by priv
SignedCar(did, rev, tree, records, priv) ==
    LET unsigned == [DID |-> did, Rev |-> rev, Data |-> RootCID(tree),
                     Sig |-> <<>>]
        content  == UnsignedBytes(unsigned)
    IN  [ok |-> TRUE, DID |-> did, Rev |-> rev,
         Sig |-> HashAndSign(priv, content, SignNonce(priv, content)),
         mst |-> tree, records |-> records]

\* the high-S twin of a signature
HighS(sig) == <<sig[1], CurveN - sig[2]>>

RepoOp(action, path, cid, prev) ==
    [Action |-> action, Path |-> path, Cid |-> cid, Prev |-> prev]

TreeA == [EmptyMST EXCEPT !["app.post/a"] = 1]

\* S1: one create op, the record in the CAR, no prevData
GoodMsg(did) ==
    [Repo |-> did, Rev |-> NowTick * ClockIdSpan, Time |-> "2024-01-01T00:00:00Z",
     TooBig |-> FALSE, Rebase |-> FALSE,
     Blocks |-> SignedCar(did, NowTick * ClockIdSpan, TreeA, {1}, 1),
     Ops |-> <<RepoOp("create", "app.post/a", 1, NoCid)>>,
     PrevData |-> NoCid]

Lookup(outcome, hasKey, priv) ==
    [outcome |-> outcome, hasKey |-> hasKey, pub |-> Public(priv)]

\* #sync message of the same account, rev and CAR
SyncMsgOf(msg) ==
    [Did |-> msg.Repo, Rev |-> msg.Rev, Time |-> msg.Time,
     Blocks |-> msg.Blocks]

(***************************************************************************)
(* Spec: concurrent HandleCommit and HandleSync calls on one Validator.    *)
(* Each call is one goroutine; call[p].uid is the UID of the account the   *)
(* event is for.  A sync.Mutex gives no order among the goroutines blocked *)
(* on it.                                                                  *)
(***************************************************************************)
LockIds == 1..NumCalls
NoLock == 0

NoResult == "none"

\* &userLock{}: an object no table entry and no call refers to
NewLock ==
    CHOOSE l \in LockIds :
        /\ \A u \in UIDs : userLocks[u] # l
        /\ \A q \in Calls : ulk[q] # l
        /\ \A m \in LockIds :
              ((\A u \in UIDs : userLocks[u] # m) /\ (\A q \in Calls : ulk[q] # m))
                  => l <= m

\* the messages the concurrent calls carry, and the directory's answers
LockMsgs ==
    {GoodMsg("did:plc:alice"),
     [GoodMsg("did:plc:alice") EXCEPT !.Repo = "alice.example"],
     [GoodMsg("did:plc:alice") EXCEPT !.Blocks.Sig = HighS(@)]}

LockLookups ==
    IF ctxDone THEN {Lookup("Cancelled", FALSE, 1)}
    ELSE {Lookup("ok", TRUE, 1), Lookup("NotFound", FALSE, 1)}

\* The arguments of the calls.  Calls and UIDs are interchangeable, so one
\* assignment stands for all its renamings: the HandleCommit calls come
\* first, and a call's UID is at most one above the UIDs of the calls
\* before it.
CallArgs ==
    {c \in [Calls -> [kind : {"commit", "sync"}, uid : UIDs]] :
        /\ \A p, q \in Calls :
              (p < q /\ c[p].kind = "sync") => c[q].kind = "sync"
        /\ \A p \in Calls :
              \/ c[p].uid = 1
              \/ \E q \in 1..(p - 1) : c[q].uid >= c[p].uid - 1}

\* NewValidator(directory)
NewValidator(dir) ==
    /\ lklk = 0
    /\ userLocks = [u \in UIDs |-> NoLock]
    /\ lk = [l \in LockIds |-> 0]
    /\ waiters = [l \in LockIds |-> 0]
    /\ directory = dir
    /\ AllowSignatureNotFound = TRUE

\* no call has started; args are the arguments the calls will be made with
InitCalls(args) ==
    /\ pc = [p \in Calls |-> "start"]
    /\ ulk = [p \in Calls |-> NoLock]
    /\ call = args
    /\ result = [p \in Calls |-> NoResult]
    /\ ctxDone = FALSE
    /\ regQueue = [u \in UIDs |-> <<>>]
    /\ released = [p \in Calls |-> 0]

\* the relay's validator has an identity directory
Init ==
    /\ NewValidator(TRUE)
    /\ \E args \in CallArgs : InitCalls(args)
    /\ vst = [phase |-> "none"]
    /\ kst = KeyIdle
    /\ IdleEngine
    /\ IdleCatalog

restVars ==
    <<directory, AllowSignatureNotFound, vst, kst, engineVars, catalogVars>>

\* lockUser: val.lklk.Lock()
LockTable(p) ==
    /\ pc[p] = "start"
    /\ call[p].kind = "commit"
    /\ lklk = 0
    /\ lklk' = p
    /\ pc' = [pc EXCEPT ![p] = "lookup"]
    /\ UNCHANGED <<userLocks, lk, waiters, ulk, call, result, ctxDone,
                   regQueue, released, restVars>>

\* a mutant: every UID is looked up under one key
RegisterSharedEntry(p) ==
    /\ pc[p] = "lookup"
    /\ LET u    == 1
           ok   == userLocks[u] # NoLock
           obj  == IF ok THEN userLocks[u] ELSE NewLock
           base == IF ok THEN waiters[obj] ELSE 0
       IN  /\ userLocks' = [userLocks EXCEPT ![u] = obj]
           /\ lk' = IF ok THEN lk ELSE [lk EXCEPT ![obj] = 0]
           /\ waiters' = [waiters EXCEPT ![obj] = base + 1]
           /\ ulk' = [ulk EXCEPT ![p] = obj]
           /\ regQueue' = [regQueue EXCEPT ![call[p].uid] = Append(@, p)]
    /\ pc' = [pc EXCEPT ![p] = "unlockTable"]
    /\ UNCHANGED <<lklk, call, result, ctxDone, released, restVars>>

\* lockUser: look the entry up or insert a new one; ulk.waiters.Add(1)
Register(p) ==
    /\ pc[p] = "lookup"
    /\ LET u    == call[p].uid
           ok   == userLocks[u] # NoLock
           obj  == IF ok THEN userLocks[u] ELSE NewLock
           base == IF ok THEN waiters[obj] ELSE 0
       IN  /\ userLocks' = [userLocks EXCEPT ![u] = obj]
           /\ lk' = IF ok THEN lk ELSE [lk EXCEPT ![obj] = 0]
           /\ waiters' = [waiters EXCEPT ![obj] = base + 1]
           /\ ulk' = [ulk EXCEPT ![p] = obj]
           /\ regQueue' = [regQueue EXCEPT ![u] = Append(@, p)]
    /\ pc' = [pc EXCEPT ![p] = "unlockTable"]
    /\ UNCHANGED <<lklk, call, result, ctxDone, released, restVars>>

\* a mutant: lockUser blocks on the user's mutex before it gives up the
\* table mutex
UnlockTableAfterAcquire(p) ==
    /\ pc[p] = "unlockTable"
    /\ lk[ulk[p]] = 0
    /\ lk' = [lk EXCEPT ![ulk[p]] = p]
    /\ regQueue' = [regQueue EXCEPT ![call[p].uid] =
                        SelectSeq(@, LAMBDA q : q # p)]
    /\ lklk' = 0
    /\ pc' = [pc EXCEPT ![p] = "verify"]
    /\ UNCHANGED <<userLocks, waiters, ulk, call, result, ctxDone, released,
                   restVars>>

\* lockUser: val.lklk.Unlock()
UnlockTable(p) ==
    /\ pc[p] = "unlockTable"
    /\ lklk' = 0
    /\ pc' = [pc EXCEPT ![p] = "wait"]
    /\ UNCHANGED <<userLocks, lk, waiters, ulk, call, result, ctxDone,
                   regQueue, released, restVars>>

\* a mutant: the per-user mutex is taken without waiting for it
AcquireUserNoWait(p) ==
    /\ pc[p] = "wait"
    /\ lk' = [lk EXCEPT ![ulk[p]] = p]
    /\ regQueue' = [regQueue EXCEPT ![call[p].uid] =
                        SelectSeq(@, LAMBDA q : q # p)]
    /\ pc' = [pc EXCEPT ![p] = "verify"]
    /\ UNCHANGED <<lklk, userLocks, waiters, ulk, call, result, ctxDone,
                   released, restVars>>

\* lockUser: ulk.lk.Lock(), which returns once the mutex is free
AcquireUser(p) ==
    /\ pc[p] = "wait"
    /\ lk[ulk[p]] = 0
    /\ lk' = [lk EXCEPT ![ulk[p]] = p]
    /\ regQueue' = [regQueue EXCEPT ![call[p].uid] =
                        SelectSeq(@, LAMBDA q : q # p)]
    /\ pc' = [pc EXCEPT ![p] = "verify"]
    /\ UNCHANGED <<lklk, userLocks, waiters, ulk, call, result, ctxDone,
                   released, restVars>>

\* HandleCommit: VerifyCommitMessage and MST.RootCID, under the user lock
Verify(p) ==
    /\ pc[p] = "verify"
    /\ \E msg \in LockMsgs, lookup \in LockLookups :
          result' = [result EXCEPT ![p] =
              HandleCommitResult(msg, NoTID, NoCid, NowTick, lookup).err]
    /\ pc' = [pc EXCEPT ![p] = "release"]
    /\ UNCHANGED <<lklk, userLocks, lk, waiters, ulk, call, ctxDone,
                   regQueue, released, restVars>>

\* the deferred unlock(): val.lklk.Lock()
RelLockTable(p) ==
    /\ pc[p] = "release"
    /\ lklk = 0
    /\ lklk' = p
    /\ pc' = [pc EXCEPT ![p] = "relUnlock"]
    /\ UNCHANGED <<userLocks, lk, waiters, ulk, call, result, ctxDone,
                   regQueue, released, restVars>>

\* unlock(): ulk.lk.Unlock()
RelUnlockUser(p) ==
    /\ pc[p] = "relUnlock"
    /\ lk' = [lk EXCEPT ![ulk[p]] = 0]
    /\ pc' = [pc EXCEPT ![p] = "relDec"]
    /\ UNCHANGED <<lklk, userLocks, waiters, ulk, call, result, ctxDone,
                   regQueue, released, restVars>>

\* a mutant: the entry is never deleted
RelDecWaitersNoDelete(p) ==
    /\ pc[p] = "relDec"
    /\ waiters' = [waiters EXCEPT ![ulk[p]] = @ - 1]
    /\ pc' = [pc EXCEPT ![p] = "relDefer"]
    /\ UNCHANGED <<lklk, userLocks, lk, ulk, call, result, ctxDone, regQueue,
                   released, restVars>>

\* a mutant: the entry is deleted whether or not other calls still wait
RelDecWaitersAlwaysDelete(p) ==
    /\ pc[p] = "relDec"
    /\ waiters' = [waiters EXCEPT ![ulk[p]] = @ - 1]
    /\ userLocks' = [userLocks EXCEPT ![call[p].uid] = NoLock]
    /\ pc' = [pc EXCEPT ![p] = "relDefer"]
    /\ UNCHANGED <<lklk, lk, ulk, call, result, ctxDone, regQueue, released,
                   restVars>>

\* unlock(): nv := ulk.waiters.Add(-1); if nv == 0, delete(val.userLocks, uid)
RelDecWaiters(p) ==
    /\ pc[p] = "relDec"
    /\ LET nv == waiters[ulk[p]] - 1
       IN  /\ waiters' = [waiters EXCEPT ![ulk[p]] = nv]
           /\ userLocks' = IF nv = 0
                           THEN [userLocks EXCEPT ![call[p].uid] = NoLock]
                           ELSE userLocks
    /\ pc' = [pc EXCEPT ![p] = "relDefer"]
    /\ UNCHANGED <<lklk, lk, ulk, call, result, ctxDone, regQueue, released,
                   restVars>>

\* unlock(): the deferred val.lklk.Unlock(); HandleCommit returns
RelUnlockTable(p) ==
    /\ pc[p] = "relDefer"
    /\ lklk' = 0
    /\ ulk' = [ulk EXCEPT ![p] = NoLock]
    /\ released' = [released EXCEPT ![p] = @ + 1]
    /\ pc' = [pc EXCEPT ![p] = "done"]
    /\ UNCHANGED <<userLocks, lk, waiters, call, result, ctxDone, regQueue,
                   restVars>>

\* HandleSync is entered: it takes no lock
SyncBegin(p) ==
    /\ pc[p] = "start"
    /\ call[p].kind = "sync"
    /\ pc' = [pc EXCEPT ![p] = "syncVerify"]
    /\ UNCHANGED <<lklk, userLocks, lk, waiters, ulk, call, result, ctxDone,
                   regQueue, released, restVars>>

\* HandleSync: its checks, and its return
SyncVerify(p) ==
    /\ pc[p] = "syncVerify"
    /\ \E msg \in LockMsgs, lookup \in LockLookups :
          result' = [result EXCEPT ![p] =
              HandleSync(SyncMsgOf(msg), NowTick, lookup).err]
    /\ pc' = [pc EXCEPT ![p] = "done"]
    /\ UNCHANGED <<lklk, userLocks, lk, waiters, ulk, call, ctxDone,
                   regQueue, released, restVars>>

\* the context the calls inherited is cancelled
CancelCtx ==
    /\ ~ctxDone
    /\ ctxDone' = TRUE
    /\ UNCHANGED <<lklk, userLocks, lk, waiters, pc, ulk, call, result,
                   regQueue, released, restVars>>

Next ==
    \/ \E p \in Calls : LockTable(p)
    \/ \E p \in Calls : Register(p)
    \/ \E p \in Calls : UnlockTable(p)
    \/ \E p \in Calls : AcquireUser(p)
    \/ \E p \in Calls : Verify(p)
    \/ \E p \in Calls : RelLockTable(p)
    \/ \E p \in Calls : RelUnlockUser(p)
    \/ \E p \in Calls : RelDecWaiters(p)
    \/ \E p \in Calls : RelUnlockTable(p)
    \/ \E p \in Calls : SyncBegin(p)
    \/ \E p \in Calls : SyncVerify(p)
    \/ CancelCtx

Spec == Init /\ [][Next]_vars

(***************************************************************************)
(* SpecFair: concurrent HandleCommit calls alone, each goroutine scheduled *)
(* again and again while it can take a step.                               *)
(***************************************************************************)
\* the validation accepts the commit (nil) or rejects it
CommitOutcomes == {"", "BadSignature"}

\* HandleCommit: the validation under the user lock terminates, with
\* whatever outcome
VerifyReturns(p) ==
    /\ pc[p] = "verify"
    /\ \E err \in CommitOutcomes : result' = [result EXCEPT ![p] = err]
    /\ pc' = [pc EXCEPT ![p] = "release"]
    /\ UNCHANGED <<lklk, userLocks, lk, waiters, ulk, call, ctxDone,
                   regQueue, released, restVars>>

\* the steps of one HandleCommit call
HandleCommit(p) ==
    \/ LockTable(p)
    \/ Register(p)
    \/ UnlockTable(p)
    \/ AcquireUser(p)
    \/ VerifyReturns(p)
    \/ RelLockTable(p)
    \/ RelUnlockUser(p)
    \/ RelDecWaiters(p)
    \/ RelUnlockTable(p)

InitFair ==
    /\ NewValidator(TRUE)
    /\ \E args \in {c \in CallArgs : \A p \in Calls : c[p].kind = "commit"} :
          InitCalls(args)
    /\ vst = [phase |-> "none"]
    /\ kst = KeyIdle
    /\ IdleEngine
    /\ IdleCatalog

NextFair == \E p \in Calls : HandleCommit(p)

SpecFair ==
    InitFair /\ [][NextFair]_vars /\ \A p \in Calls : WF_vars(HandleCommit(p))

(***************************************************************************)
(* SpecKey: the key operations on drawn keys, contents and signatures.     *)
(***************************************************************************)
InitKey ==
    /\ NewValidator(TRUE)
    /\ InitCalls([p \in Calls |-> [kind |-> "commit", uid |-> 1]])
    /\ vst = [phase |-> "none"]
    /\ kst \in KeyVerifyInputs \cup KeySignInputs
    /\ IdleEngine
    /\ IdleCatalog

NextKey ==
    \/ KeyHashAndSign
    \/ KeyHashAndVerify
    \/ KeyVerifySigned

SpecKey == InitKey /\ [][NextKey]_vars

(***************************************************************************)
(* SpecVerify: one call of HandleCommit, HandleSync or                     *)
(* VerifyCommitSignature on drawn inputs.  The call runs alone, so the     *)
(* user lock HandleCommit takes and releases leaves the lock table as it   *)
(* found it.                                                               *)
(***************************************************************************)
\* the CAR of GoodMsg with its commit's DID, signer and signature changed
SigCar(carDid, signer, variant) ==
    LET car == SignedCar(carDid, NowTick * ClockIdSpan, TreeA, {1}, signer)
    IN  [car EXCEPT !.Sig = CASE variant = "low" -> @
                              [] variant = "high" -> HighS(@)
                              [] OTHER -> <<1>>]

\* inputs that differ in what the signature step reads
SigInputs ==
    {[msg |-> [GoodMsg(repo) EXCEPT !.Blocks = SigCar(carDid, signer, variant),
                                    !.TooBig = big],
      prevRev |-> NoTID, prevData |-> NoCid, now |-> NowTick,
      lookup |-> [outcome |-> outcome, hasKey |-> hasKey, pub |-> Public(1)]] :
        repo \in {"did:plc:alice", "alice.example"},
        carDid \in {"did:plc:alice", "alice.example"},
        signer \in {1, 2},
        variant \in {"low", "high", "short"},
        big \in BOOLEAN,
        outcome \in {"ok", "NotFound", "Transient"},
        hasKey \in BOOLEAN}

\* mst.Tree apply of one op: [ok, tree]
ApplyOp(tree, op) ==
    IF op.Path \notin ValidPaths THEN [ok |-> FALSE, tree |-> tree]
    ELSE IF IsCreate(op)
    THEN [ok |-> tree[op.Path] = NoCid,
          tree |-> [tree EXCEPT ![op.Path] = op.Value]]
    ELSE IF IsUpdate(op)
    THEN [ok |-> tree[op.Path] # NoCid /\ tree[op.Path] = op.Prev,
          tree |-> [tree EXCEPT ![op.Path] = op.Value]]
    ELSE IF IsDelete(op)
    THEN [ok |-> tree[op.Path] # NoCid /\ tree[op.Path] = op.Prev,
          tree |-> [tree EXCEPT ![op.Path] = NoCid]]
    ELSE [ok |-> FALSE, tree |-> tree]

RECURSIVE ApplyAll(_, _, _)
\* the ops applied in list order, from index i on: [ok, tree]
ApplyAll(tree, ops, i) ==
    IF i > Len(ops) THEN [ok |-> TRUE, tree |-> tree]
    ELSE LET one == ApplyOp(tree, ops[i])
         IN  IF ~one.ok THEN [ok |-> FALSE, tree |-> tree]
             ELSE ApplyAll(one.tree, ops, i + 1)

\* the wire form of a repo.Operation
WireOp(op) ==
    RepoOp(IF IsCreate(op) THEN "create"
           ELSE IF IsUpdate(op) THEN "update" ELSE "delete",
           op.Path, op.Value, op.Prev)

MaxOps == 2

Trees == [ValidPaths -> {NoCid} \cup Cids]

Operations ==
    {Operation(path, prev, value) :
        path \in ValidPaths, prev \in {NoCid} \cup Cids,
        value \in {NoCid} \cup Cids} \ {Operation(path, NoCid, NoCid) : path \in ValidPaths}

RECURSIVE Diffs(_)
\* [from, ops]: the lists of at most n ops that apply to a tree
Diffs(n) ==
    IF n = 0 THEN {[from |-> tree, ops |-> <<>>] : tree \in Trees}
    ELSE LET shorter == Diffs(n - 1)
         IN  shorter \cup
             UNION {{[d EXCEPT !.ops = Append(@, op)] :
                        op \in {o \in Operations :
                                   ApplyAll(d.from, Append(d.ops, o), 1).ok}} :
                    d \in shorter}

\* S2: the commit that takes the repo from tree by ops, every record block
\* in the CAR, msg.prevData the root of tree
DiffMsg(tree, ops) ==
    [GoodMsg("did:plc:alice") EXCEPT
        !.Blocks = SignedCar("did:plc:alice", NowTick * ClockIdSpan,
                             ApplyAll(tree, ops, 1).tree, Cids, 1),
        !.Ops = [i \in 1..Len(ops) |-> WireOp(ops[i])],
        !.PrevData = RootCID(tree)]

CallInput(msg, prevRev, prevData, now, lookup) ==
    [msg |-> msg, prevRev |-> prevRev, prevData |-> prevData, now |-> now,
     lookup |-> lookup]

\* commits whose MST is a tree with a list of ops applied to it
DiffInputs ==
    {CallInput(DiffMsg(tree, ops), NoTID, NoCid, NowTick,
               Lookup("ok", TRUE, 1)) :
        <<tree, ops>> \in {<<d.from, d.ops>> : d \in Diffs(MaxOps)}}

OtherCid(c) == IF c = NoCid THEN 1 ELSE (c % MaxCid) + 1

\* a message like in.msg with one thing changed: the claimed prevData, one
\* field of one op, the order of the ops, or a record block of the CAR
Damaged(in) ==
    LET msg == in.msg
        n   == Len(msg.Ops)
    IN  {[in EXCEPT !.msg.PrevData = pd] :
            pd \in {NoCid, RootCID(msg.Blocks.mst)}}
        \cup {[in EXCEPT !.msg.Ops[i].Prev = NoCid] : i \in 1..n}
        \cup {[in EXCEPT !.msg.Ops[i].Prev = OtherCid(@)] : i \in 1..n}
        \cup {[in EXCEPT !.msg.Ops[i].Cid = OtherCid(@)] : i \in 1..n}
        \cup {[in EXCEPT !.msg.Ops[i].Path = PathList[3]] : i \in 1..n}
        \cup {[in EXCEPT !.msg.Ops = [i \in 1..n |-> msg.Ops[n + 1 - i]]]}
        \cup {[in EXCEPT !.msg.Blocks.records = Cids \ {c}] : c \in Cids}


\* S2 with the flags, the accumulated prevData, the claimed prevData and the
\* directory's answer varied
FlagInputs ==
    {CallInput([DiffMsg(TreeA, <<Operation("app.post/a", 1, 2)>>) EXCEPT
                   !.TooBig = big, !.Rebase = reb, !.PrevData = claimed],
               NoTID, prevData, NowTick, Lookup(outcome, TRUE, 1)) :
        big \in BOOLEAN, reb \in BOOLEAN,
        claimed \in {NoCid, RootCID(TreeA), RootCID(EmptyMST)},
        prevData \in {NoCid, RootCID(TreeA), RootCID(EmptyMST)},
        outcome \in {"ok", "NotFound"}}

\* the CAR of a message with rev: as the message says, with a commit of
\* another rev, or one that does not decode
RevCar(rev, variant) ==
    LET carRev == IF variant = "otherRev" \/ ~ParseTIDOk(rev)
                  THEN OtherCid(NoCid) ELSE rev
        car    == SignedCar("did:plc:alice", carRev, TreeA, {1}, 1)
    IN  [car EXCEPT !.ok = variant # "bad"]

\* S1 with the account, the rev, the time, the CAR, prevRev and the clock
\* varied
RevInputs ==
    {CallInput([GoodMsg(repo) EXCEPT !.Rev = rev, !.Time = time,
                                      !.Blocks = RevCar(rev, variant)],
               prevRev, NoCid, now, Lookup("ok", TRUE, 1)) :
        repo \in {"did:plc:alice", "alice.example"},
        rev \in TIDs \cup {BadTID},
        time \in Datetimes,
        variant \in {"same", "otherRev", "bad"},
        prevRev \in TIDs \cup {NoTID},
        now \in 0..NowTick}

\* the CAR of S1 with the commit's DID, its rev and its signature varied
FaultCar(carDid, carRev, sigOk) ==
    LET car == SignedCar(carDid, carRev, TreeA, {1}, 1)
    IN  [car EXCEPT !.Sig = IF sigOk THEN @ ELSE <<1>>]

\* S1 with several things wrong at once: the account, the time, the
\* commit's DID, rev and signature, the shape of the op, a second op and the
\* claimed prevData
FaultInputs ==
    {CallInput([GoodMsg(repo) EXCEPT
                   !.Time = time,
                   !.Blocks = FaultCar(carDid, carRev, sigOk),
                   !.Ops = <<RepoOp(action, "app.post/a", cid, prev)>> \o more,
                   !.PrevData = claimed],
               NoTID, NoCid, NowTick, Lookup("ok", TRUE, 1)) :
        repo \in {"did:plc:alice", "alice.example"},
        time \in Datetimes,
        carDid \in ValidDIDs,
        carRev \in {NowTick * ClockIdSpan, 0},
        sigOk \in BOOLEAN,
        action \in Actions,
        cid \in {NoCid, 1, MaxCid},
        prev \in {NoCid, 1},
        more \in {<<>>, <<RepoOp("create", "app.post/b", MaxCid, NoCid)>>,
                  <<RepoOp("delete", "app.post/b", NoCid, NoCid)>>},
        claimed \in {NoCid, RootCID(EmptyMST)}}

VerifyInputs ==
    SigInputs \cup RevInputs \cup FlagInputs \cup DiffInputs \cup FaultInputs

NoOut == [err |-> "none", newRoot |-> NoCid,
          verify |-> VerifyError("", 0, 0)]

\* the validator runs with or without a directory on the inputs that vary
\* what the signature step reads, with one on the others; of a commit that
\* is the diff of a tree the damaged ones are drawn too
InitVerify ==
    /\ InitCalls([p \in Calls |-> [kind |-> "commit", uid |-> 1]])
    /\ \E i \in VerifyInputs :
          /\ \E dir \in (IF i \in SigInputs \cup FlagInputs
                         THEN BOOLEAN ELSE {TRUE}) : NewValidator(dir)
          /\ \E in \in {i} \cup (IF i \in DiffInputs THEN Damaged(i) ELSE {}) :
                vst = [phase |-> "drawn", in |-> in, out |-> NoOut]
    /\ kst = KeyIdle
    /\ IdleEngine
    /\ IdleCatalog

\* the operator sets Validator.AllowSignatureNotFound before events flow
SetAllowSignatureNotFound ==
    /\ vst.phase = "drawn"
    /\ AllowSignatureNotFound' = ~AllowSignatureNotFound
    /\ UNCHANGED <<lockVars, directory, vst, kst,
                 engineVars, catalogVars>>

CallHandleCommit ==
    /\ vst.phase = "drawn"
    /\ vst' = [vst EXCEPT !.phase = "commit",
                          !.out = HandleCommitResult(vst.in.msg, vst.in.prevRev,
                                      vst.in.prevData, vst.in.now,
                                      vst.in.lookup)]
    /\ UNCHANGED <<lockVars, directory, AllowSignatureNotFound, kst,
                 engineVars, catalogVars>>

CallHandleSync ==
    /\ vst.phase = "drawn"
    /\ vst' = [vst EXCEPT !.phase = "sync",
                          !.out = HandleSync(SyncMsgOf(vst.in.msg), vst.in.now,
                                             vst.in.lookup)]
    /\ UNCHANGED <<lockVars, directory, AllowSignatureNotFound, kst,
                 engineVars, catalogVars>>

\* VerifyCommitSignature on the commit of the CAR, hasWarning being FALSE
CallVerifyCommitSignature ==
    /\ vst.phase = "drawn"
    /\ vst.in.msg.Blocks.ok
    /\ LET sig == VerifyCommitSignature(CommitOf(vst.in.msg.Blocks),
                                        vst.in.lookup, FALSE)
       IN  vst' = [vst EXCEPT !.phase = "sig",
                      !.out = [err |-> ErrKind(sig.metric), newRoot |-> NoCid,
                               verify |-> VerifyResult(sig.metric, "",
                                             sig.warn, NoCid, sig.lookups,
                                             sig.verified, 0)]]
    /\ UNCHANGED <<lockVars, directory, AllowSignatureNotFound, kst,
                 engineVars, catalogVars>>

NextVerify ==
    \/ SetAllowSignatureNotFound
    \/ CallHandleCommit
    \/ CallHandleSync
    \/ CallVerifyCommitSignature

SpecVerify == InitVerify /\ [][NextVerify]_vars

(***************************************************************************)
(* ParseCommitOps on drawn wire op lists (SpecOps).                        *)
(***************************************************************************)
\* the wire ops ParseCommitOps is given: every action with and without a
\* cid and a prev
RepoOps ==
    [Action : Actions, Path : ValidPaths, Cid : {NoCid, 1}, Prev : {NoCid, MaxCid}]

RepoOpLists == UNION {[1..n -> RepoOps] : n \in 0..MaxOps}

InitOps ==
    /\ InitCalls([p \in Calls |-> [kind |-> "commit", uid |-> 1]])
    /\ NewValidator(TRUE)
    /\ \E ops \in RepoOpLists :
          vst = [phase |-> "drawn", in |-> ops,
                 out |-> [ok |-> FALSE, ops |-> <<>>]]
    /\ kst = KeyIdle
    /\ IdleEngine
    /\ IdleCatalog

CallParseCommitOps ==
    /\ vst.phase = "drawn"
    /\ vst' = [vst EXCEPT !.phase = "parsed", !.out = ParseCommitOps(vst.in)]
    /\ UNCHANGED <<lockVars, directory, AllowSignatureNotFound, kst,
                 engineVars, catalogVars>>

NextOps == CallParseCommitOps

SpecOps == InitOps /\ [][NextOps]_vars

(***************************************************************************)
(* engine: createReportIfFresh and createRecordReportIfFresh on a drawn    *)
(* answer of the moderation service (SpecReport).  Times are clock ticks;  *)
(* a CreatedAt that does not parse is BadDatetime.                         *)
(***************************************************************************)
ReportDupePeriod == 1
MaxEvents == 2

\* the clock when the call is made
EngineNow == ReportDupePeriod + 1

BadDatetime == -1

\* xrpcc.Auth.Did
AutomodDid == "did:plc:automod"

\* a nil ReportType
NoType == "none"

\* the arguments of the call: did or uri, and mr.ReasonType
ReportDid == "did:plc:alice"
ReportUri == "at://did:plc:alice/app.post/a"
ReportReason == "reasonSpam"

RepoRef(did) == [ref |-> "repo", id |-> did]

StrongRef(uri) == [ref |-> "record", id |-> uri]

\* a ModEventView of the query's answer
ModEventView(isReport, createdBy, subject, reportType, createdAt) ==
    [IsReport |-> isReport, CreatedBy |-> createdBy, Subject |-> subject,
     ReportType |-> reportType, CreatedAt |-> createdAt]

\* the events the service may answer with: automod's reports on the account
\* and on the record, of every type and age, and recent events that are no
\* report, are another account's, or are on another subject
ModEventViews ==
    {ModEventView(TRUE, AutomodDid, subject, type, at) :
        subject \in {RepoRef(ReportDid), StrongRef(ReportUri)},
        type \in {NoType, ReportReason, "reasonOther"},
        at \in {BadDatetime, EngineNow - ReportDupePeriod - 1,
                EngineNow - ReportDupePeriod, EngineNow}}
    \cup {ModEventView(FALSE, AutomodDid, RepoRef(ReportDid), ReportReason,
                       EngineNow),
          ModEventView(TRUE, "did:plc:mod", RepoRef(ReportDid), ReportReason,
                       EngineNow),
          ModEventView(TRUE, AutomodDid, RepoRef("did:plc:bob"), ReportReason,
                       EngineNow)}

RECURSIVE ScanEvents(_, _, _, _, _)
\* the loop over resp.Events from event i on: "dup" when it returns at a
\* similar recent report, "err" when ParseDatetime fails, "fresh" when it
\* runs to the end
ScanEvents(events, subject, reasonType, now, i) ==
    IF i > Len(events) THEN "fresh"
    ELSE LET evt == events[i]
         IN  IF \/ ~evt.IsReport
                \/ evt.CreatedBy # AutomodDid
                \/ evt.Subject # subject
                \/ (evt.ReportType # NoType /\ evt.ReportType # reasonType)
             THEN ScanEvents(events, subject, reasonType, now, i + 1)
             ELSE IF evt.CreatedAt = BadDatetime THEN "err"
             ELSE IF now - evt.CreatedAt > ReportDupePeriod
             THEN ScanEvents(events, subject, reasonType, now, i + 1)
             ELSE "dup"

\* what both functions do with their subject: the (bool, error) returned
\* and the events emitted
CreateIfFresh(in, subject) ==
    LET scan == ScanEvents(in.events, subject, in.reasonType, in.now, 1)
        none == [created |-> FALSE, err |-> FALSE, emitted |-> <<>>]
    IN  IF in.queryFails THEN [none EXCEPT !.err = TRUE]
        ELSE IF scan = "err" THEN [none EXCEPT !.err = TRUE]
        ELSE IF scan = "dup" THEN none
        ELSE IF in.emitFails THEN [none EXCEPT !.err = TRUE]
        ELSE [created |-> TRUE, err |-> FALSE,
              emitted |-> <<ModEventView(TRUE, AutomodDid, subject,
                                         in.reasonType, in.now)>>]

createReportIfFresh(in) == CreateIfFresh(in, RepoRef(in.did))

createRecordReportIfFresh(in) == CreateIfFresh(in, StrongRef(in.uri))

\* what ModerationQueryEvents answers and which of the two service calls
\* fail
ReportInputs ==
    {[events |-> events, did |-> ReportDid, uri |-> ReportUri,
      reasonType |-> ReportReason, now |-> EngineNow,
      queryFails |-> fails[1], emitFails |-> fails[2]] :
        events \in UNION {[1..n -> ModEventViews] : n \in 0..MaxEvents},
        fails \in {<<FALSE, FALSE>>, <<TRUE, FALSE>>, <<FALSE, TRUE>>}}

NoReport == [created |-> FALSE, err |-> FALSE, emitted |-> <<>>]

InitReport ==
    /\ InitCalls([p \in Calls |-> [kind |-> "commit", uid |-> 1]])
    /\ NewValidator(TRUE)
    /\ vst = [phase |-> "none"]
    /\ kst = KeyIdle
    /\ Counters = <<>>
    /\ cb = <<>>
    /\ \E in \in ReportInputs :
          rep = [phase |-> "drawn", in |-> in, out |-> NoReport]
    /\ IdleCatalog

CallCreateReportIfFresh ==
    /\ rep.phase = "drawn"
    /\ rep' = [rep EXCEPT !.phase = "account",
                          !.out = createReportIfFresh(rep.in)]
    /\ UNCHANGED <<relayVars, Counters, cb, catalogVars>>

CallCreateRecordReportIfFresh ==
    /\ rep.phase = "drawn"
    /\ rep' = [rep EXCEPT !.phase = "record",
                          !.out = createRecordReportIfFresh(rep.in)]
    /\ UNCHANGED <<relayVars, Counters, cb, catalogVars>>

NextReport ==
    \/ CallCreateReportIfFresh
    \/ CallCreateRecordReportIfFresh

SpecReport == InitReport /\ [][NextReport]_vars

(***************************************************************************)
(* engine: concurrent circuitBreakReports, circuitBreakEscalation and      *)
(* circuitBreakTakedown calls within one daily counting period             *)
(* (SpecQuota).  Each call is one goroutine; Engine.Counters is shared,    *)
(* and GetCount and Increment are each one operation on it.                *)
(***************************************************************************)
NumWorkers == 3
QuotaModReportDay == 1
QuotaModEscalationDay == 1
QuotaModTakedownDay == 1

Workers == 1..NumWorkers

\* the names counted under "automod-quota"
QuotaNames == {"report", "escalate", "takedown"}

Quota(name) ==
    CASE name = "report" -> QuotaModReportDay
      [] name = "escalate" -> QuotaModEscalationDay
      [] OTHER -> QuotaModTakedownDay

\* a call that has not started: fn is the name its function counts under;
\* c its local of that name; ret whether it returned the action unsuppressed
\* (true, or the non-empty reports); err whether it returned an error
NewCall(name) ==
    [fn |-> name, pc |-> "start", c |-> 0, ret |-> FALSE, err |-> FALSE]

InitQuota ==
    /\ InitCalls([p \in Calls |-> [kind |-> "commit", uid |-> 1]])
    /\ NewValidator(TRUE)
    /\ vst = [phase |-> "none"]
    /\ kst = KeyIdle
    /\ Counters = [name \in QuotaNames |-> 0]
    /\ \E fns \in [Workers -> QuotaNames] :
          cb = [w \in Workers |-> NewCall(fns[w])]
    /\ rep = <<>>
    /\ IdleCatalog

\* the function up to and including its test of the count: it returns at
\* once when there is no action to take, when GetCount fails, and when the
\* count has reached the quota
CircuitBreakGetCount(w) ==
    /\ cb[w].pc = "start"
    /\ \E wanted \in BOOLEAN, fails \in BOOLEAN :
          LET c == Counters[cb[w].fn]
          IN  cb' = [cb EXCEPT ![w] =
                  IF ~wanted THEN [@ EXCEPT !.pc = "done"]
                  ELSE IF fails THEN [@ EXCEPT !.pc = "done", !.err = TRUE]
                  ELSE IF c >= Quota(cb[w].fn)
                  THEN [@ EXCEPT !.pc = "done", !.c = c]
                  ELSE [@ EXCEPT !.pc = "increment", !.c = c]]
    /\ UNCHANGED <<relayVars, Counters, rep, catalogVars>>

\* Counters.Increment and the return of the action
CircuitBreakIncrement(w) ==
    /\ cb[w].pc = "increment"
    /\ \E fails \in BOOLEAN :
          IF fails
          THEN /\ cb' = [cb EXCEPT ![w].pc = "done", ![w].err = TRUE]
               /\ UNCHANGED Counters
          ELSE /\ Counters' = [Counters EXCEPT ![cb[w].fn] = @ + 1]
               /\ cb' = [cb EXCEPT ![w].pc = "done", ![w].ret = TRUE]
    /\ UNCHANGED <<relayVars, rep, catalogVars>>

NextQuota ==
    \/ \E w \in Workers : CircuitBreakGetCount(w)
    \/ \E w \in Workers : CircuitBreakIncrement(w)

SpecQuota == InitQuota /\ [][NextQuota]_vars

(***************************************************************************)
(* lexicon: a BaseCatalog under a sequence of AddSchemaFile and Resolve    *)
(* calls (SpecCatalog).  A schema name base + "#" + frag is the pair       *)
(* <<base, frag>>; a reference is such a pair too, its second component    *)
(* "" when the string has no "#".                                          *)
(***************************************************************************)
MaxBody == 2

\* SchemaFile.ID
SchemaBases == {"com.example.post"}

\* an NSID no file has
UnknownBase == "com.example.none"

\* a fragment with a "." in it
BadFrag == "a.b"

\* the keys of SchemaFile.Defs
SchemaFrags == {"main", "view", BadFrag}

\* len(frag) == 0 || strings.Contains(frag, "#") || strings.Contains(frag, ".")
FragInvalid(frag) == frag = "" \/ frag = BadFrag

SchemaNames == SchemaBases \X (SchemaFrags \ {BadFrag})

\* the types AddSchemaFile asks to be named main
PrimaryTypes == {"record", "query", "procedure", "subscription"}

\* no definition under the fragment
NoDef == [type |-> "none", body |-> 0, checks |-> TRUE]

\* the definitions of a file: type, content, and whether CheckSchema passes
SchemaDefs ==
    {[type |-> t, body |-> 1, checks |-> TRUE] :
        t \in PrimaryTypes \cup {"token"}}
    \cup {[type |-> "object", body |-> b, checks |-> TRUE] : b \in 1..MaxBody}
    \cup {[type |-> "object", body |-> 1, checks |-> FALSE]}

SchemaFiles ==
    {[ID |-> base, Defs |-> defs] :
        base \in SchemaBases,
        defs \in {d \in [SchemaFrags -> SchemaDefs \cup {NoDef}] :
                     d[BadFrag] \in {NoDef, [type |-> "object", body |-> 1,
                                            checks |-> TRUE]}}}

\* no entry under the name
NoSchema == [ID |-> <<>>, Def |-> NoDef]

\* Schema{ID: name, Def: def.Inner}; a token carries its full name
Schema(name, def) ==
    [ID |-> name,
     Def |-> [type |-> def.type, body |-> def.body,
              fullName |-> IF def.type = "token" THEN name ELSE <<>>]]

\* the orders in which range may visit the keys
Orders(keys) ==
    {o \in [1..Cardinality(keys) -> keys] :
        \A i, j \in 1..Cardinality(keys) : o[i] = o[j] => i = j}

RECURSIVE AddDefsOverwrite(_, _, _, _)
\* a mutant: a name already in the catalog is stored again
AddDefsOverwrite(cur, sf, order, i) ==
    IF i > Len(order) THEN [schemas |-> cur, err |-> ""]
    ELSE LET frag == order[i]
             def  == sf.Defs[frag]
             name == <<sf.ID, frag>>
         IN  IF FragInvalid(frag) THEN [schemas |-> cur, err |-> "invalid"]
             ELSE IF def.type \in PrimaryTypes /\ frag # "main"
             THEN [schemas |-> cur, err |-> "notMain"]
             ELSE IF ~def.checks THEN [schemas |-> cur, err |-> "check"]
             ELSE AddDefsOverwrite([cur EXCEPT ![name] = Schema(name, def)],
                                   sf, order, i + 1)

RECURSIVE AddDefs(_, _, _, _)
\* the loop of AddSchemaFile over sf.Defs from the i-th key visited on:
\* the catalog it leaves and the error it returns ("" for nil)
AddDefs(cur, sf, order, i) ==
    IF i > Len(order) THEN [schemas |-> cur, err |-> ""]
    ELSE LET frag == order[i]
             def  == sf.Defs[frag]
             name == <<sf.ID, frag>>
         IN  IF FragInvalid(frag) THEN [schemas |-> cur, err |-> "invalid"]
             ELSE IF cur[name] # NoSchema
             THEN [schemas |-> cur, err |-> "present"]
             ELSE IF def.type \in PrimaryTypes /\ frag # "main"
             THEN [schemas |-> cur, err |-> "notMain"]
             ELSE IF ~def.checks THEN [schemas |-> cur, err |-> "check"]
             ELSE AddDefs([cur EXCEPT ![name] = Schema(name, def)],
                          sf, order, i + 1)

\* the references Resolve is called with: the empty string, an NSID, an
\* NSID with a fragment
SchemaRefs ==
    {<<"", "">>}
    \cup ((SchemaBases \cup {UnknownBase}) \X ({""} \cup SchemaFrags))

\* BaseCatalog.Resolve: [ok, schema]
Resolve(cur, ref) ==
    LET name == IF ref[2] = "" THEN <<ref[1], "main">> ELSE ref
    IN  IF ref = <<"", "">> THEN [ok |-> FALSE, schema |-> NoSchema]
        ELSE IF name \in SchemaNames /\ cur[name] # NoSchema
        THEN [ok |-> TRUE, schema |-> cur[name]]
        ELSE [ok |-> FALSE, schema |-> NoSchema]

NoFile == [ID |-> "", Defs |-> [frag \in SchemaFrags |-> NoDef]]

\* NewBaseCatalog()
InitCatalog ==
    /\ InitCalls([p \in Calls |-> [kind |-> "commit", uid |-> 1]])
    /\ NewValidator(TRUE)
    /\ vst = [phase |-> "none"]
    /\ kst = KeyIdle
    /\ IdleEngine
    /\ schemas = [name \in SchemaNames |-> NoSchema]
    /\ cat = [op |-> "none", sf |-> NoFile, ref |-> <<"", "">>, err |-> "",
              out |-> NoSchema]

AddSchemaFile ==
    \E sf \in SchemaFiles :
        \E order \in Orders({frag \in SchemaFrags : sf.Defs[frag] # NoDef}) :
            LET done == AddDefs(schemas, sf, order, 1)
            IN  /\ schemas' = done.schemas
                /\ cat' = [op |-> "AddSchemaFile", sf |-> sf,
                           ref |-> <<"", "">>, err |-> done.err,
                           out |-> NoSchema]
                /\ UNCHANGED <<relayVars, engineVars>>

CallResolve ==
    \E ref \in SchemaRefs :
        LET got == Resolve(schemas, ref)
        IN  /\ cat' = [op |-> "Resolve", sf |-> NoFile, ref |-> ref,
                       err |-> IF got.ok THEN "" ELSE "notFound",
                       out |-> got.schema]
            /\ UNCHANGED <<relayVars, engineVars, schemas>>

NextCatalog ==
    \/ AddSchemaFile
    \/ CallResolve

SpecCatalog == InitCatalog /\ [][NextCatalog]_vars

(***************************************************************************)
(* Properties of the per-user lock (Spec).                                 *)
(***************************************************************************)
\* the call holds its user's mutex: from ulk.lk.Lock() to ulk.lk.Unlock()
InCS(p) == pc[p] \in {"verify", "release", "relUnlock"}

SameUser(p, q) == p # q /\ call[p].uid = call[q].uid

AllDone == \A p \in Calls : pc[p] = "done"

\* C1: at most one HandleCommit call per UID is between acquiring the
\* per-user lock and releasing it; a second call for the UID validates only
\* after the first has released.
C1_MutualExclusion ==
    \A p, q \in Calls :
        (SameUser(p, q) /\ call[p].kind = "commit" /\ call[q].kind = "commit")
            => ~(InCS(p) /\ InCS(q))

\* a call validates while the call that held the lock before it is still
\* inside its release function, having just unlocked the mutex
C1_Witness ==
    \E p, q \in Calls :
        /\ SameUser(p, q)
        /\ pc[p] = "relDec"
        /\ pc[q] = "verify"
        /\ ulk[p] = ulk[q]

\* C2: once all calls have completed, failed or not, the lock table has no
\* entry, no mutex is held and every HandleCommit call has run its release
\* function exactly once.
C2_TableClean ==
    AllDone =>
        /\ \A u \in UIDs : userLocks[u] = NoLock
        /\ \A l \in LockIds : lk[l] = 0
        /\ lklk = 0
        /\ \A p \in Calls :
              released[p] = IF call[p].kind = "commit" THEN 1 ELSE 0

\* three HandleCommit calls, two for one UID and one for another, some
\* failed and some succeeded, have all returned
C2_Witness ==
    /\ AllDone
    /\ \E p, q, r \in Calls :
          /\ SameUser(p, q)
          /\ call[r].uid # call[p].uid
          /\ \A c \in {p, q, r} : call[c].kind = "commit"
          /\ result[p] = ""
          /\ result[q] # ""

\* C3: for one UID the calls acquire the per-user lock in the order in
\* which they registered in lockUser.
C3_CallOrder ==
    [][\A p \in Calls :
          (pc[p] = "wait" /\ pc'[p] = "verify")
              => Head(regQueue[call[p].uid]) = p]_vars

\* C4: no HandleSync validation for an account runs while a HandleCommit or
\* another HandleSync validation for the same account is in flight.
C4_SyncUnderLock ==
    \A p, q \in Calls :
        (SameUser(p, q) /\ call[p].kind = "sync" /\ pc[p] = "syncVerify")
            => ~(InCS(q) \/ pc[q] = "syncVerify")

\* C5: calls for distinct UIDs do not contend: they never share a lock
\* object, a call waits for its mutex only while a call for its own UID
\* holds it, and the table mutex is never held across a wait or a
\* validation, so a call for UID B can acquire, validate and release while
\* a validation for UID A goes on.
C5_DistinctUidsIndependent ==
    /\ \A p, q \in Calls :
          (ulk[p] # NoLock /\ ulk[q] # NoLock /\ call[p].uid # call[q].uid)
              => ulk[p] # ulk[q]
    /\ \A p \in Calls :
          (pc[p] = "wait" /\ \A q \in Calls : SameUser(p, q) => ~InCS(q))
              => ENABLED AcquireUser(p)
    /\ lklk # 0 =>
          pc[lklk] \in {"lookup", "unlockTable", "relUnlock", "relDec",
                        "relDefer"}

\* validations for two UIDs hold their locks at the same time
C5_Witness ==
    \E p, q \in Calls :
        /\ call[p].uid # call[q].uid
        /\ pc[p] = "verify"
        /\ pc[q] = "verify"
        /\ lk[ulk[p]] = p
        /\ lk[ulk[q]] = q

\* C6: a HandleCommit call whose context has been cancelled, while it
\* waited for the user lock or before, aborts with Err(Cancelled).
C6_CancelAborts ==
    [][\A p \in Calls :
          (ctxDone /\ pc[p] = "verify" /\ pc'[p] = "release")
              => result'[p] = "Cancelled"]_vars

(***************************************************************************)
(* Properties of the signature step (SpecVerify).                          *)
(***************************************************************************)
VCalled == vst.phase \in {"commit", "sync", "sig"}

VCommit == CommitOf(vst.in.msg.Blocks)

\* the reason codes of the checks that come before the signature step
BeforeSignature == {"did", "tid", "revb", "revf", "time", "car", "rev", "did2"}

\* the call got as far as the directory lookup
ReachedLookup ==
    /\ VCalled
    /\ directory
    /\ vst.out.verify.metric \notin BeforeSignature
    /\ vst.out.verify.metric # "sig1"

\* C7: with a directory configured and LookupDID succeeding, HandleCommit
\* and HandleSync accept the event only if the identity document has a
\* signing key (else NoSigningKey) that verifies the commit's signature
\* over its signed bytes (else BadSignature).
C7_SignatureSound ==
    (vst.phase \in {"commit", "sync"} /\ directory
        /\ vst.in.lookup.outcome = "ok")
    => LET valid == HashAndVerify(vst.in.lookup.pub, UnsignedBytes(VCommit),
                                  VCommit.Sig) = ""
       IN  /\ vst.out.err = "" => (vst.in.lookup.hasKey /\ valid)
           /\ (ReachedLookup /\ ~vst.in.lookup.hasKey)
                 => vst.out.err = "NoSigningKey"
           /\ (ReachedLookup /\ vst.in.lookup.hasKey /\ ~valid)
                 => vst.out.err = "BadSignature"

\* HandleCommit accepted a commit whose signature the looked-up key verifies
C7_Witness ==
    /\ vst.phase = "commit"
    /\ directory
    /\ vst.in.lookup.outcome = "ok"
    /\ vst.out.err = ""
    /\ vst.out.verify.verified

\* C8: when LookupDID fails with a Transient error the event is not
\* accepted, AllowSignatureNotFound set or not.
C8_TransientIsError ==
    (VCalled /\ directory /\ vst.in.lookup.outcome = "Transient")
        => vst.out.err # ""

\* C9: when LookupDID reports NotFound, VerifyCommitSignature succeeds with
\* hasWarning set and no signature verified if AllowSignatureNotFound is
\* set, and fails with DIDResolutionFailed, the event being rejected, if it
\* is unset.
C9_NotFoundPolicy ==
    (ReachedLookup /\ vst.in.lookup.outcome = "NotFound")
    => IF AllowSignatureNotFound
       THEN vst.phase = "sig"
               => /\ vst.out.err = ""
                  /\ vst.out.verify.warn
                  /\ ~vst.out.verify.verified
       ELSE vst.out.err = "DIDResolutionFailed"

\* VerifyCommitSignature failed on NotFound with the flag unset
C9_Witness ==
    /\ vst.phase = "sig"
    /\ directory
    /\ vst.in.lookup.outcome = "NotFound"
    /\ ~AllowSignatureNotFound
    /\ vst.out.err = "DIDResolutionFailed"

(***************************************************************************)
(* Properties of commit and sync validation (SpecVerify).                  *)
(***************************************************************************)
VMsg == vst.in.msg

VOut == vst.out.verify

\* msg.Repo and msg.Rev parse
RevParsed == ParseDIDOk(VMsg.Repo) /\ ParseTIDOk(VMsg.Rev)

\* C11: in HandleCommit, with the DID and the rev parsing and prevRev
\* given, the call fails with RevOutOfOrder and dt = prevTime - curTime > 0
\* exactly when rev.Time() is before prevRev.Time(); equal times pass the
\* check, and so does every rev when prevRev is nil.
C11_RevMonotonic ==
    (vst.phase = "commit" /\ RevParsed)
    => LET cur    == TIDTime(VMsg.Rev)
           before == vst.in.prevRev # NoTID /\ cur < TIDTime(vst.in.prevRev)
       IN  /\ before => /\ vst.out.err = "RevOutOfOrder"
                         /\ VOut.dt = TIDTime(vst.in.prevRev) - cur
                         /\ VOut.dt > 0
           /\ ~before => /\ vst.out.err # "RevOutOfOrder"
                          /\ VOut.metric # "revb"

\* HandleCommit failed with RevOutOfOrder on a rev older than prevRev
C11_Witness ==
    /\ vst.phase = "commit"
    /\ vst.in.prevRev # NoTID
    /\ TIDTime(VMsg.Rev) < TIDTime(vst.in.prevRev)
    /\ vst.out.err = "RevOutOfOrder"
    /\ VOut.dt > 0

\* C12: HandleCommit and HandleSync, the checks before it passing, fail with
\* RevTooFarFuture exactly when rev.Time() is after now + maxRevFuture; a
\* rev at or below now + maxRevFuture passes the check.
C12_FutureBound ==
    LET tooFar == TIDTime(VMsg.Rev) > vst.in.now + defaultMaxRevFuture
    IN  /\ (vst.phase = "commit" /\ RevParsed /\ VOut.metric # "revb")
               => (vst.out.err = "RevTooFarFuture" <=> tooFar)
        /\ (vst.phase = "sync" /\ RevParsed)
               => (vst.out.err = "RevTooFarFuture" <=> tooFar)

\* HandleCommit passed a rev exactly maxRevFuture ahead of the clock
C12_Witness ==
    /\ vst.phase = "commit"
    /\ RevParsed
    /\ TIDTime(VMsg.Rev) = vst.in.now + defaultMaxRevFuture
    /\ vst.out.err = ""

\* the reason codes of steps 2 to 11: everything before the legacy loop
BeforeLegacy ==
    BeforeSignature \cup {"sig1", "sig2", "sig3", "sig4"}
        \cup {"opp", "rcid", "opc", "rec"}

\* some delete or update op has no prev
HasLegacyOp ==
    \E i \in 1..Len(VMsg.Ops) :
        VMsg.Ops[i].Action \in {"delete", "update"} /\ VMsg.Ops[i].Prev = NoCid

\* the normalized ops of the message
VNormal == NormalizeOps(ParseCommitOps(VMsg.Ops).ops)

\* the commit's MST with every normalized op undone
VInvertedTree ==
    [path \in ValidPaths |->
        IF \E i \in 1..Len(VNormal.ops) : VNormal.ops[i].Path = path
        THEN LET i == CHOOSE j \in 1..Len(VNormal.ops) :
                          VNormal.ops[j].Path = path
             IN  VNormal.ops[i].Prev
        ELSE VMsg.Blocks.mst[path]]

\* C13: with msg.prevData present and no delete or update op lacking prev,
\* HandleCommit never accepts a commit for which the root of its MST with
\* all normalized ops inverted differs from msg.prevData: once the steps
\* before the comparison pass, it fails with PrevDataMismatch.
C13_PrevDataChecked ==
    (vst.phase = "commit" /\ VMsg.PrevData # NoCid /\ ~HasLegacyOp)
    => /\ vst.out.err = "" => RootCID(VInvertedTree) = VMsg.PrevData
       /\ (VOut.metric \notin BeforeLegacy \cup {"pop", "nop", "inv"}
             /\ RootCID(VInvertedTree) # VMsg.PrevData)
               => vst.out.err = "PrevDataMismatch"

\* a commit with an update op was rejected with PrevDataMismatch: the
\* tree its op's prev CID leads back to has not the claimed root
C13_Witness ==
    /\ vst.phase = "commit"
    /\ VMsg.PrevData # NoCid
    /\ \E i \in 1..Len(VMsg.Ops) :
          VMsg.Ops[i].Action = "update" /\ VMsg.Ops[i].Prev # NoCid
    /\ RootCID(VInvertedTree) # VMsg.PrevData
    /\ vst.out.err = "PrevDataMismatch"

\* the message's ops are well-formed and lead from a tree whose root is
\* msg.PrevData to the commit's MST
IsDiffOfPrevData ==
    /\ VMsg.Blocks.ok
    /\ VMsg.PrevData # NoCid
    /\ ParseCommitOps(VMsg.Ops).ok
    /\ \E tree \in Trees :
          /\ RootCID(tree) = VMsg.PrevData
          /\ ApplyAll(tree, ParseCommitOps(VMsg.Ops).ops, 1).ok
          /\ ApplyAll(tree, ParseCommitOps(VMsg.Ops).ops, 1).tree
                = VMsg.Blocks.mst

\* C14: when the commit's MST is a tree T with well-formed ops applied and
\* msg.prevData is the root of T, then, the steps before the inversion
\* passing (NormalizeOps among them: ops on one path that do not compose,
\* or cancel out, fail there), HandleCommit passes the inversion check and
\* returns the root of the commit's own MST, which the inversion on the
\* copy leaves as it was.
C14_InversionRoundTrip ==
    (vst.phase = "commit" /\ IsDiffOfPrevData
        /\ VOut.metric \notin BeforeLegacy \cup {"nop"})
    => /\ vst.out.err = ""
       /\ vst.out.newRoot = RootCID(VMsg.Blocks.mst)
       /\ VOut.okish \in {"new", "warn", "ok"}

\* S2: a commit that changes the tree was accepted after its ops were
\* inverted, and its own root returned
C14_Witness ==
    /\ vst.phase = "commit"
    /\ IsDiffOfPrevData
    /\ Len(VOut.inverted) > 0
    /\ VMsg.PrevData # RootCID(VMsg.Blocks.mst)
    /\ vst.out.err = ""
    /\ vst.out.newRoot = RootCID(VMsg.Blocks.mst)

\* the op is a create or update with a CID
IsRecordOp(op) == op.Action \in {"create", "update"} /\ op.Cid # NoCid

\* what is wrong with the op's record in the commit's CAR, "" if nothing
RecordFault(op) ==
    LET car == VMsg.Blocks
    IN  IF ~IsRecordOp(op) THEN ""
        ELSE IF op.Path \notin ValidPaths THEN "path"
        ELSE IF car.mst[op.Path] = NoCid THEN "absent"
        ELSE IF car.mst[op.Path] # op.Cid THEN "cid"
        ELSE IF op.Cid \notin car.records THEN "block"
        ELSE ""

\* C15: every commit HandleCommit accepts has, for each create or update op
\* with a CID, a path that parses, that CID under the path in the commit's
\* MST and the record block in the CAR.  Once the steps before pass, the
\* first op that is not so fails the call: with BadPath for its path, with
\* OpCIDMismatch for another CID in the MST, with MissingRecord for a
\* missing block; a path the MST has no entry for fails the record lookup.
C15_OpRecordConsistency ==
    vst.phase = "commit"
    => /\ vst.out.err = ""
            => \A i \in 1..Len(VMsg.Ops) : RecordFault(VMsg.Ops[i]) = ""
       /\ \A i \in 1..Len(VMsg.Ops) :
             (/\ VOut.metric \notin BeforeSignature
                     \cup {"sig1", "sig2", "sig3", "sig4"}
              /\ RecordFault(VMsg.Ops[i]) # ""
              /\ \A j \in 1..(i - 1) : RecordFault(VMsg.Ops[j]) = "")
             => LET fault == RecordFault(VMsg.Ops[i])
                IN  /\ fault = "path" => vst.out.err = "BadPath"
                    /\ fault = "cid" => vst.out.err = "OpCIDMismatch"
                    /\ fault = "block" => vst.out.err = "MissingRecord"
                    /\ fault = "absent"
                          => (vst.out.err # "" /\ VOut.metric = "rcid")

\* a commit was rejected with OpCIDMismatch for its second op
C15_Witness ==
    /\ vst.phase = "commit"
    /\ Len(VMsg.Ops) = 2
    /\ RecordFault(VMsg.Ops[1]) = ""
    /\ IsRecordOp(VMsg.Ops[1])
    /\ RecordFault(VMsg.Ops[2]) = "cid"
    /\ vst.out.err = "OpCIDMismatch"

\* C16: when steps 2 to 11 pass and some delete or update op has no prev
\* CID, HandleCommit returns success and the root of the commit's MST
\* without parsing, normalizing or inverting the ops, also when
\* msg.prevData is present and the ops would not lead back to it.
C16_LegacyShortCircuit ==
    (vst.phase = "commit" /\ VOut.metric \notin BeforeLegacy /\ HasLegacyOp)
    => /\ vst.out.err = ""
       /\ vst.out.newRoot = RootCID(VMsg.Blocks.mst)
       /\ VOut.okish \in {"del", "up"}
       /\ VOut.inverted = <<>>

\* a commit with an update op without prev was accepted although its
\* prevData is not the root its ops lead back to
C16_Witness ==
    /\ vst.phase = "commit"
    /\ \E i \in 1..Len(VMsg.Ops) :
          VMsg.Ops[i].Action = "update" /\ VMsg.Ops[i].Prev = NoCid
    /\ VMsg.PrevData # NoCid
    /\ ~ParseCommitOps(VMsg.Ops).ok
    /\ VMsg.PrevData # RootCID(VMsg.Blocks.mst)
    /\ vst.out.err = ""
    /\ vst.out.newRoot = RootCID(VMsg.Blocks.mst)

\* the paths of the normalized ops, in normalized order
VNormalPaths == [i \in 1..Len(VNormal.ops) |-> VNormal.ops[i].Path]

\* the call reached the inversion loop
ReachedInversion ==
    /\ vst.phase = "commit"
    /\ VOut.metric \in {"", "inv", "pd"}
    /\ VOut.okish \in {"", "new", "warn", "ok"}

\* C17 as claimed: the inversion step inverts the normalized ops in reverse
\* normalized order, the last op first.
C17_ReverseOrder ==
    (ReachedInversion /\ VOut.metric # "inv")
    => VOut.inverted
         = [i \in 1..Len(VNormalPaths) |->
               VNormalPaths[Len(VNormalPaths) + 1 - i]]

\* C17, amended: the inversion step inverts the normalized ops in
\* normalized order, the first op first, up to the first op InvertOp fails
\* on, and on a copy: the root returned is that of the commit's MST.
C17_NormalizedOrder ==
    ReachedInversion
    => /\ Len(VOut.inverted) <= Len(VNormalPaths)
       /\ VOut.inverted = SubSeq(VNormalPaths, 1, Len(VOut.inverted))
       /\ VOut.metric # "inv" => VOut.inverted = VNormalPaths
       /\ vst.out.err = "" => vst.out.newRoot = RootCID(VMsg.Blocks.mst)

\* a commit with ops on two paths, sent in descending path order, was
\* accepted with its ops inverted in ascending path order
C17_Witness ==
    /\ ReachedInversion
    /\ vst.out.err = ""
    /\ Len(VMsg.Ops) = 2
    /\ VMsg.Ops[1].Path = PathList[2]
    /\ VMsg.Ops[2].Path = PathList[1]
    /\ VOut.inverted = <<PathList[1], PathList[2]>>

\* values of the accumulated prevData: nil, the message's own and two roots
PrevDataArgs ==
    {NoCid, VMsg.PrevData, RootCID(EmptyMST), RootCID(TreeA)}

\* C18: a HandleCommit call that differs from the one made only in the
\* tooBig flag, the rebase flag and the prevData argument accepts or
\* rejects alike, with the same error kind and the same root.
C18_WarningsKeepVerdict ==
    vst.phase = "commit"
    => \A big \in BOOLEAN, reb \in BOOLEAN, prevData \in PrevDataArgs :
          LET other == HandleCommitResult(
                           [VMsg EXCEPT !.TooBig = big, !.Rebase = reb],
                           vst.in.prevRev, prevData, vst.in.now,
                           vst.in.lookup)
          IN  /\ other.err = vst.out.err
              /\ other.newRoot = vst.out.newRoot

\* a commit with both flags set and a msg.PrevData other than the
\* accumulated prevData was accepted with a warning
C18_Witness ==
    /\ vst.phase = "commit"
    /\ VMsg.TooBig
    /\ VMsg.Rebase
    /\ vst.in.prevData # NoCid
    /\ VMsg.PrevData # NoCid
    /\ VMsg.PrevData # vst.in.prevData
    /\ vst.out.err = ""
    /\ VOut.okish = "warn"

\* what the call handed back to its caller: newRoot and err
Returned(out) == <<out.newRoot, out.err>>

\* the call made, without any ground for a warning: flags unset, no
\* accumulated prevData, the directory resolving the account
Unwarned ==
    LET msg    == [VMsg EXCEPT !.TooBig = FALSE, !.Rebase = FALSE]
        lookup == [vst.in.lookup EXCEPT !.outcome = "ok", !.hasKey = TRUE]
    IN  IF vst.phase = "commit"
        THEN HandleCommitResult(msg, vst.in.prevRev, NoCid, vst.in.now, lookup)
        ELSE HandleSync(SyncMsgOf(msg), vst.in.now, lookup)

\* C19: what HandleCommit and HandleSync return for an event accepted with
\* a warning differs from what they return for the event accepted without
\* one.
C19_WarningTagged ==
    (vst.phase \in {"commit", "sync"} /\ vst.out.err = "" /\ VOut.warn)
    => ((Unwarned.err = "" /\ ~Unwarned.verify.warn)
           => Returned(Unwarned) # Returned(vst.out))

\* the signature step of the #sync message passes
SyncSignaturePasses ==
    \/ ~directory
    \/ /\ ParseDIDOk(VCommit.DID)
       /\ IF vst.in.lookup.outcome = "ok"
          THEN /\ vst.in.lookup.hasKey
               /\ HashAndVerify(vst.in.lookup.pub, UnsignedBytes(VCommit),
                                 VCommit.Sig) = ""
          ELSE AllowSignatureNotFound

\* C20: HandleSync accepts the #sync message exactly when the DID and the
\* rev parse, the rev is within the future bound, the time parses, the
\* CAR's commit decodes with the message's rev and DID, and the signature
\* step passes; prevRev and the ops of the event play no part.  It then
\* returns the data CID of the CAR's commit.
C20_SyncChecks ==
    vst.phase = "sync"
    => LET pass == /\ ParseDIDOk(VMsg.Repo)
                   /\ ParseTIDOk(VMsg.Rev)
                   /\ TIDTime(VMsg.Rev) <= vst.in.now + defaultMaxRevFuture
                   /\ ParseDatetimeOk(VMsg.Time)
                   /\ VMsg.Blocks.ok
                   /\ VCommit.Rev = VMsg.Rev
                   /\ VCommit.DID = VMsg.Repo
                   /\ SyncSignaturePasses
       IN  /\ vst.out.err = "" <=> pass
           /\ vst.out.err = "" => vst.out.newRoot = VCommit.Data

\* HandleSync accepted an event whose rev is older than prevRev and
\* returned the commit's data CID
C20_Witness ==
    /\ vst.phase = "sync"
    /\ vst.in.prevRev # NoTID
    /\ TIDTime(VMsg.Rev) < TIDTime(vst.in.prevRev)
    /\ directory
    /\ vst.out.err = ""
    /\ vst.out.newRoot = VCommit.Data
    /\ VOut.verified

(***************************************************************************)
(* Properties of ParseCommitOps (SpecOps).                                 *)
(***************************************************************************)
\* the wire op has one of the three actions and the cid and prev its action
\* asks for
WellShaped(rop) ==
    \/ rop.Action = "create" /\ rop.Cid # NoCid /\ rop.Prev = NoCid
    \/ rop.Action = "delete" /\ rop.Prev # NoCid /\ rop.Cid = NoCid
    \/ rop.Action = "update" /\ rop.Cid # NoCid /\ rop.Prev # NoCid

\* C21: ParseCommitOps returns a list of ops exactly when every wire op has
\* action create, update or delete and the cid and prev that action asks
\* for (create: cid and no prev, delete: prev and no cid, update: both); the
\* list then has the length and the order of the input, with path, prev and
\* cid kept.  Every other input, an unknown action included, yields an error
\* and no ops.
C21_ParseCommitOps ==
    vst.phase = "parsed"
    => /\ vst.out.ok <=> \A i \in 1..Len(vst.in) : WellShaped(vst.in[i])
       /\ vst.out.ok
          => /\ Len(vst.out.ops) = Len(vst.in)
             /\ \A i \in 1..Len(vst.in) :
                   /\ vst.out.ops[i].Path = vst.in[i].Path
                   /\ vst.out.ops[i].Prev = vst.in[i].Prev
                   /\ vst.out.ops[i].Value = vst.in[i].Cid
       /\ ~vst.out.ok => vst.out.ops = <<>>

\* a list of MaxOps different well-shaped ops was parsed
C21_Witness ==
    /\ vst.phase = "parsed"
    /\ Len(vst.in) = MaxOps
    /\ vst.in[1].Action = "create"
    /\ vst.in[MaxOps].Action = "delete"
    /\ vst.in[1].Path # vst.in[MaxOps].Path
    /\ vst.out.ok
    /\ Len(vst.out.ops) = MaxOps

(***************************************************************************)
(* Properties of the order and the outcome of the checks (SpecVerify).     *)
(***************************************************************************)

\* the place of each reason code in VerifyCommitMessage's sequence of checks
CheckOf(metric) ==
    CASE metric = "did" -> 1
      [] metric = "tid" -> 2
      [] metric = "revb" -> 3
      [] metric = "revf" -> 4
      [] metric = "time" -> 5
      [] metric = "car" -> 6
      [] metric = "rev" -> 7
      [] metric = "did2" -> 8
      [] metric \in {"sig1", "sig2", "sig3", "sig4"} -> 9
      [] metric \in {"opp", "rcid", "opc", "rec"} -> 10
      [] metric \in {"pop", "nop", "inv", "pd"} -> 12
      [] OTHER -> 0

\* check k, taken by itself, stops the drawn event: it fails, or (k = 11) a
\* legacy op short-circuits the rest
CheckStops(k) ==
    LET msg == VMsg
        car == VMsg.Blocks
    IN  CASE k = 1 -> ~ParseDIDOk(msg.Repo)
          [] k = 2 -> ~ParseTIDOk(msg.Rev)
          [] k = 3 -> /\ ParseTIDOk(msg.Rev)
                      /\ vst.in.prevRev # NoTID
                      /\ TIDTime(msg.Rev) < TIDTime(vst.in.prevRev)
          [] k = 4 -> /\ ParseTIDOk(msg.Rev)
                      /\ TIDTime(msg.Rev) > vst.in.now + defaultMaxRevFuture
          [] k = 5 -> ~ParseDatetimeOk(msg.Time)
          [] k = 6 -> ~car.ok
          [] k = 7 -> car.ok /\ car.Rev # msg.Rev
          [] k = 8 -> car.ok /\ car.DID # msg.Repo
          [] k = 9 -> /\ car.ok
                      /\ VerifyCommitSignature(CommitOf(car), vst.in.lookup,
                                               FALSE).metric # ""
          [] k = 10 -> car.ok /\ OpsRecordCheck(msg.Ops, car, 1) # ""
          [] k = 11 -> \E i \in 1..Len(msg.Ops) :
                          /\ msg.Ops[i].Action \in {"delete", "update"}
                          /\ msg.Ops[i].Prev = NoCid
          [] OTHER -> /\ car.ok
                      /\ msg.PrevData # NoCid
                      /\ VerifyPrevData(msg, car, vst.in.prevData, FALSE,
                                        SigResult("", FALSE, 0, FALSE)).metric # ""

\* the first check that stops the drawn event (0: none does)
FirstStop ==
    IF \E k \in 1..12 : CheckStops(k)
    THEN CHOOSE k \in 1..12 :
            CheckStops(k) /\ \A j \in 1..(k - 1) : ~CheckStops(j)
    ELSE 0

\* C22: VerifyCommitMessage evaluates its checks in the order DID parse,
\* rev parse, rev monotonicity, future bound, time parse, CAR decode,
\* commit rev then commit DID against the message, signature, op/record
\* consistency, legacy short-circuit, prevData inversion; it returns at the
\* first check that fails, with that check's reason code, and an event that
\* fails a check before the signature step causes no directory lookup.
C22_CheckOrder ==
    vst.phase = "commit"
    => /\ FirstStop \in (1..10) \cup {12} <=> VOut.metric # ""
       /\ VOut.metric # "" => CheckOf(VOut.metric) = FirstStop
       /\ FirstStop = 11 => VOut.okish \in {"del", "up"}
       /\ FirstStop \in 1..8 => VOut.lookups = 0

\* an event whose commit names another DID, whose signature is malformed
\* and whose op names a CID the MST does not have failed with the reason
\* code of the DID cross-check, and the directory was not asked
C22_Witness ==
    /\ vst.phase = "commit"
    /\ CheckStops(8) /\ CheckStops(9) /\ CheckStops(10)
    /\ FirstStop = 8
    /\ VOut.metric = "did2"
    /\ VOut.lookups = 0

\* the outcome counters the call incremented: commitVerifyErrors with the
\* reason code, commitVerifyOkish with the label, commitVerifyOk
OutcomeCounters ==
    (IF VOut.metric # "" THEN {<<"error", VOut.metric>>} ELSE {})
    \cup (IF VOut.okish \notin {"", "ok"}
          THEN {<<"okish", VOut.okish>>} ELSE {})
    \cup (IF VOut.okish = "ok" THEN {<<"ok", "">>} ELSE {})

\* something raised a warning during the call: a flag, a lookup failure let
\* through, or a msg.PrevData other than the accumulated prevData
WarningRaised ==
    \/ VMsg.TooBig
    \/ VMsg.Rebase
    \/ directory /\ vst.in.lookup.outcome # "ok" /\ AllowSignatureNotFound
    \/ vst.in.prevData # NoCid /\ VMsg.PrevData # vst.in.prevData

\* C23: every VerifyCommitMessage call increments exactly one outcome
\* counter: error with one reason code when it fails; when it succeeds,
\* okish del or up on the legacy path, okish old when msg.prevData is
\* absent, okish new when msg.prevData is present and no prevData is known,
\* okish warn when both are present and a warning was raised, and ok only
\* when msg.prevData is present, the known prevData equals it, the
\* inversion matched and there was no warning.
C23_OneOutcomeCounter ==
    vst.phase = "commit"
    => /\ Cardinality(OutcomeCounters) = 1
       /\ vst.out.err # "" <=> \E c \in OutcomeCounters : c[1] = "error"
       /\ vst.out.err = ""
          => LET label == (CHOOSE c \in OutcomeCounters : TRUE)
             IN  IF HasLegacyOp
                 THEN label = <<"okish", LegacyOp(VMsg.Ops, 1)>>
                 ELSE IF VMsg.PrevData = NoCid THEN label = <<"okish", "old">>
                 ELSE IF vst.in.prevData = NoCid THEN label = <<"okish", "new">>
                 ELSE IF WarningRaised THEN label = <<"okish", "warn">>
                 ELSE label = <<"ok", "">>
       /\ <<"ok", "">> \in OutcomeCounters
          => /\ VMsg.PrevData # NoCid
             /\ vst.in.prevData = VMsg.PrevData
             /\ RootCID(VInvertedTree) = VMsg.PrevData
             /\ ~WarningRaised

\* a commit whose account the directory could not resolve was let through
\* and counted as okish warn, its prevData matching the known one
C23_Witness ==
    /\ vst.phase = "commit"
    /\ directory
    /\ vst.in.lookup.outcome # "ok"
    /\ ~VMsg.TooBig /\ ~VMsg.Rebase
    /\ vst.in.prevData # NoCid
    /\ VMsg.PrevData = vst.in.prevData
    /\ OutcomeCounters = {<<"okish", "warn">>}

\* some op of the message breaks the shape rules of ParseCommitOps
HasIllShapedOp == \E i \in 1..Len(VMsg.Ops) : ~WellShaped(VMsg.Ops[i])

\* C27: the shape rules of the ops and the rejection of unknown actions
\* take effect in HandleCommit only when msg.prevData is present and no
\* delete or update op lacks prev: a commit without msg.prevData that
\* passes the checks up to the record check is accepted also when an op
\* has an unknown action, is a create with a prev CID, or is a create or
\* update with no CID; with msg.prevData present and no legacy op, such an
\* op is rejected as InvalidOp.
C27_ShapeRulesScope ==
    vst.phase = "commit"
    => /\ VOut.metric = "pop" => (VMsg.PrevData # NoCid /\ ~HasLegacyOp)
       /\ (\A k \in 1..10 : ~CheckStops(k))
          => /\ VMsg.PrevData = NoCid => vst.out.err = ""
             /\ (VMsg.PrevData # NoCid /\ ~HasLegacyOp /\ HasIllShapedOp)
                => vst.out.err = "InvalidOp"

\* a commit without msg.prevData whose only op has an unknown action was
\* accepted
C27_Witness ==
    /\ vst.phase = "commit"
    /\ VMsg.PrevData = NoCid
    /\ Len(VMsg.Ops) = 1
    /\ VMsg.Ops[1].Action \notin {"create", "update", "delete"}
    /\ vst.out.err = ""
    /\ vst.out.newRoot = VCommit.Data

Reversed(s) == [i \in 1..Len(s) |-> s[Len(s) + 1 - i]]

RECURSIVE InvertEach(_, _, _)
\* whether InvertOp succeeds on each op from index i on, the ops being
\* inverted in list order, each on the tree the ops before it left
InvertEach(tree, ops, i) ==
    IF i > Len(ops) THEN {}
    ELSE LET one == InvertOp(tree, ops[i])
         IN  {<<ops[i], one.ok>>} \cup InvertEach(one.tree, ops, i + 1)

\* C28: for the normalized ops of a commit (at most one op per path),
\* inverting them in forward and in reverse normalized order gives the same
\* success or failure of each Invert and the same tree root, hence the
\* verdict HandleCommit reaches is the one the reverse order would give.
C28_OrderIrrelevant ==
    ReachedInversion
    => LET ops == VNormal.ops
           mst == VMsg.Blocks.mst
           fwd == InvertAll(mst, ops, 1)
           rev == InvertAll(mst, Reversed(ops), 1)
       IN  /\ InvertEach(mst, ops, 1) = InvertEach(mst, Reversed(ops), 1)
           /\ fwd.ok = rev.ok
           /\ fwd.ok => RootCID(fwd.tree) = RootCID(rev.tree)
           /\ VOut.metric = "inv" <=> ~rev.ok
           /\ VOut.metric = "pd"
              <=> (rev.ok /\ RootCID(rev.tree) # VMsg.PrevData)

\* the inversion failed at the second of two normalized ops, the one the
\* reverse order would have tried first
C28_Witness ==
    /\ ReachedInversion
    /\ Len(VNormal.ops) = 2
    /\ InvertOp(VMsg.Blocks.mst, VNormal.ops[1]).ok
    /\ ~InvertOp(VMsg.Blocks.mst, VNormal.ops[2]).ok
    /\ VOut.metric = "inv"
    /\ VOut.inverted = VNormalPaths

(***************************************************************************)
(* Properties of the report dedupe (SpecReport).                           *)
(***************************************************************************)
\* the subject of the call made
RepSubject ==
    IF rep.phase = "account" THEN RepoRef(rep.in.did)
    ELSE StrongRef(rep.in.uri)

\* the queried event is a report created by the automod account on the
\* call's subject, with the call's reason type, of age at most
\* ReportDupePeriod
SimilarRecent(evt) ==
    /\ evt.IsReport
    /\ evt.CreatedBy = AutomodDid
    /\ evt.Subject = RepSubject
    /\ evt.ReportType = rep.in.reasonType
    /\ evt.CreatedAt # BadDatetime
    /\ rep.in.now - evt.CreatedAt <= ReportDupePeriod

\* C24: createReportIfFresh and createRecordReportIfFresh, when no call
\* fails, emit a moderation report event and return true exactly when none
\* of the queried events is a report created by the automod account on the
\* same subject with the same reason type and of age at most
\* ReportDupePeriod; when there is one they emit nothing and return false.
C24_FreshReport ==
    (rep.phase \in {"account", "record"} /\ ~rep.out.err)
    => IF \E i \in 1..Len(rep.in.events) : SimilarRecent(rep.in.events[i])
       THEN ~rep.out.created /\ rep.out.emitted = <<>>
       ELSE rep.out.created /\ Len(rep.out.emitted) = 1

(***************************************************************************)
(* Properties of the circuit breakers (SpecQuota).                         *)
(***************************************************************************)
\* the calls of the name's function that returned the action unsuppressed
Granted(name) ==
    {w \in Workers : cb[w].fn = name /\ cb[w].pc = "done" /\ cb[w].ret}

\* C29: within one daily counting period, for any interleaving of
\* concurrent calls, the number of circuitBreakTakedown calls that return
\* true never exceeds QuotaModTakedownDay (likewise circuitBreakEscalation
\* and QuotaModEscalationDay, and circuitBreakReports returning a non-empty
\* list and QuotaModReportDay), and once the counter has reached the quota
\* nothing is incremented any more.
C29_QuotaHeld ==
    \A name \in QuotaNames :
        /\ Cardinality(Granted(name)) <= Quota(name)
        /\ Counters[name] <= Quota(name)

(***************************************************************************)
(* Properties of the catalog (SpecCatalog).                                *)
(***************************************************************************)
\* the file defines a name the catalog has, or a fragment that is invalid,
\* or a record, query, procedure or subscription not named main
Rejectable(cur, sf) ==
    \E frag \in SchemaFrags :
        /\ sf.Defs[frag] # NoDef
        /\ \/ FragInvalid(frag)
           \/ cur[<<sf.ID, frag>>] # NoSchema
           \/ sf.Defs[frag].type \in PrimaryTypes /\ frag # "main"

\* C30: over any sequence of AddSchemaFile calls on a BaseCatalog, an entry
\* once stored under a name is never replaced or removed: a file that
\* defines a name already present (or an invalid fragment, or a record,
\* query, procedure or subscription not named main) makes the call return
\* an error, and Resolve of a reference that resolved before the call
\* returns the same schema after it.
C30_EntriesKept ==
    [][/\ \A name \in SchemaNames :
             schemas[name] # NoSchema => schemas'[name] = schemas[name]
       /\ \A ref \in SchemaRefs :
             Resolve(schemas, ref).ok
                => Resolve(schemas', ref) = Resolve(schemas, ref)
       /\ (cat'.op = "AddSchemaFile" /\ Rejectable(schemas, cat'.sf))
             => cat'.err # ""]_vars

\* a file that defines a name of the catalog with other content, and a new
\* name next to it, was refused, and the entry is the one stored before
C30_Witness ==
    /\ cat.op = "AddSchemaFile"
    /\ cat.err = "present"
    /\ \E frag \in {"main", "view"} :
          /\ cat.sf.Defs[frag] # NoDef
          /\ schemas[<<cat.sf.ID, frag>>] # NoSchema
          /\ schemas[<<cat.sf.ID, frag>>].Def.body # cat.sf.Defs[frag].body
          /\ \E other \in {"main", "view"} \ {frag} :
                cat.sf.Defs[other] # NoDef

(***************************************************************************)
(* Properties of the lock table and of progress (Spec, SpecFair).          *)
(***************************************************************************)
\* the HandleCommit calls for the UID that have registered in lockUser and
\* not yet run their release function, seen while the table mutex is free
Registered(u) ==
    {p \in Calls : /\ call[p].kind = "commit"
                   /\ call[p].uid = u
                   /\ pc[p] \in {"wait", "verify", "release"}}

\* C25: whenever the table mutex is free, the table has an entry for a UID
\* exactly when some HandleCommit call for that UID has registered in
\* lockUser and not yet run its release function; the entry's waiters
\* counter is the number of such calls, and all of them hold or wait on
\* that same lock object.
C25_LockTable ==
    lklk = 0
    => \A u \in UIDs :
          /\ userLocks[u] # NoLock <=> Registered(u) # {}
          /\ userLocks[u] # NoLock
             => /\ waiters[userLocks[u]] = Cardinality(Registered(u))
                /\ \A p \in Registered(u) : ulk[p] = userLocks[u]

\* one call for the UID has released while two others, one holding the
\* lock and one waiting for it, share the entry it left in place
C25_Witness ==
    /\ lklk = 0
    /\ \E u \in UIDs, p, q, r \in Calls :
          /\ call[p].uid = u /\ pc[p] = "done" /\ released[p] = 1
          /\ {q, r} \subseteq Registered(u)
          /\ pc[q] = "verify"
          /\ pc[r] = "wait"
          /\ waiters[userLocks[u]] = 2

\* C26: the lock protocol cannot deadlock: for concurrent HandleCommit
\* calls over any UIDs, whose validations terminate, there is no reachable
\* state in which every unfinished call is blocked, and under fair
\* scheduling every call eventually acquires its per-user lock and returns
\* (it has returned once its release function, which unlocks the lock it
\* acquired, has run).
C26_NoDeadlock ==
    /\ [](AllDone \/ \E p \in Calls : ENABLED HandleCommit(p))
    /\ \A p \in Calls : <>(pc[p] = "done" /\ released[p] = 1)

\* one call validates under the user lock while every other call waits for
\* that same lock
C26_Witness ==
    \E p \in Calls :
        /\ pc[p] = "verify"
        /\ \A q \in Calls \ {p} : pc[q] = "wait" /\ ulk[q] = ulk[p]

(***************************************************************************)
(* Properties of the P-256 key (SpecKey).                                  *)
(***************************************************************************)
\* C10: HashAndVerify rejects with ErrInvalidSignature every signature of
\* the right length whose s is in the upper half of the curve order, also
\* when raw ECDSA verification against SHA-256(content) passes, and accepts
\* exactly the signatures that pass raw verification and have low s.
C10_LowSRequired ==
    (kst.op = "verify" /\ Len(kst.sig) = SigLen)
    => LET raw  == EcdsaVerify(kst.pub, Sha256(kst.content),
                               kst.sig[1], kst.sig[2])
           high == 2 * kst.sig[2] > CurveN
       IN  /\ high => kst.err = "ErrInvalidSignature"
           /\ kst.err = "" <=> (raw /\ ~high)

\* a high-S signature that passes raw ECDSA verification was rejected
C10_Witness ==
    /\ kst.op = "verify"
    /\ Len(kst.sig) = SigLen
    /\ EcdsaVerify(kst.pub, Sha256(kst.content), kst.sig[1], kst.sig[2])
    /\ 2 * kst.sig[2] > CurveN
    /\ kst.err = "ErrInvalidSignature"
====
